---- MODULE Spec2Model ----
(***************************************************************************)
(* A model of the TraceBench log-viewer core: Tests and their DataFiles,   *)
(* the canonical header schema, header reconciliation, the per-file time   *)
(* transform and the merge engine.                                         *)
(*                                                                         *)
(* The specifications below share the variables:                           *)
(*   Spec         - Tests, DataFiles and the main-window handlers          *)
(*   SpecDiff     - compute_header_diff on drawn header lists              *)
(*   SpecTime     - DataFile.get_time_data on drawn time columns           *)
(*   SpecMerge    - Test.get_merged_dataframe on drawn Tests               *)
(*   SpecMerger   - the DataMerger functions on drawn tables               *)
(*   SpecApply    - FilterState.apply_to_dataframe on drawn tables         *)
(*   SpecFilter   - the FilterManager, its Tests and its listeners         *)
(*   SpecChannels - FilterManager.get_filtered_channels                    *)
(*   SpecCompare  - the TestComparer on drawn lists of Tests               *)
(*   SpecRange    - Test.get_time_range on drawn Tests                     *)
(*   SpecAlign    - the TimeAligner functions on floating-point numbers    *)
(*   SpecDict     - to_dict and from_dict of the model classes             *)
(*   SpecMapping  - apply_header_mapping on drawn DataFiles                *)
(*   SpecWindow   - the main window's Tests and the FilterManager registry *)
(*   SpecPlots    - the PlotContainer's plot panels and their settings     *)
(* A specification leaves the variables of the others at Idle.             *)
(***************************************************************************)
EXTENDS Integers, Sequences, FiniteSets, TLC

VARIABLES
    files,      \* DataFile objects created so far: file id (1..Len) -> DataFile record
    tests,      \* Test objects: test id -> Test record
    last,       \* history: how the header-mismatch dialog of the latest step ended
    diff_in,    \* SpecDiff: the arguments of compute_header_diff
    diff_out,   \* SpecDiff: the HeaderDiff returned, or Idle before the call
    tfile,      \* SpecTime: the DataFile whose get_time_data is called
    time_out,   \* SpecTime: the array returned, or Idle before the call
    mtest,      \* SpecMerge: the Test (with its DataFiles) being merged
    merged,     \* SpecMerge: the table returned, or Idle before the call
    call,       \* the specifications of single functions: the function and its arguments
    ret,        \* the value that call returned, or Idle before the call
    fm,         \* SpecFilter, SpecWindow: the FilterManager, its Tests and its listeners
    plot_container  \* SpecPlots: the PlotContainer's lists of plots and of settings

vars ==
    <<files, tests, last, diff_in, diff_out, tfile, time_out, mtest, merged, call, ret, fm,
      plot_container>>

(***************************************************************************)
(* Bounds of the model.                                                    *)
(***************************************************************************)
MaxFiles == 2      \* DataFile objects created in Spec
MaxMembers == 2    \* entries of all Test.data_files lists together in Spec
MaxHeaders == 2    \* headers in each list given to compute_header_diff in SpecDiff
MaxSamples == 2    \* rows of the DataFile in SpecTime
MaxRows == 2       \* rows of each DataFile in SpecMerge
MaxTestFiles == 4  \* DataFiles of a Test in SpecMerge
MaxListeners == 2  \* entries of the FilterManager's listener list in SpecFilter
MaxCalls == 2      \* calls of FilterManager mutators in SpecFilter
MaxChannels == 2   \* channels in the list given to get_filtered_channels in SpecChannels
MaxTime == 8       \* largest magnitude of a time value given to the TimeAligner in SpecAlign
MaxCreated == 2     \* Tests created by new-test and import-files in SpecWindow
MaxCount == 5       \* largest magnitude of the count given to set_plot_count in SpecPlots
MaxCompared == 2   \* Tests in the list given to a TestComparer in SpecCompare

(***************************************************************************)
(* Python values.                                                          *)
(***************************************************************************)
None == "None"
\* The value of a variable its specification does not use, or has not computed yet.
Idle == [done |-> FALSE]

Range(s) == {s[i] : i \in DOMAIN s}

\* The iteration orders a Python set (string hashing is randomised per process) can show.
SetOrders(S) ==
    {s \in [1..Cardinality(S) -> S] : \A i, j \in 1..Cardinality(S) : i # j => s[i] # s[j]}

(***************************************************************************)
(* Enumerations (models.py).                                               *)
(***************************************************************************)
TimeMode == {"ABSOLUTE", "RELATIVE", "CUSTOM_OFFSET"}
JoinStrategy == {"TIME_NEAREST", "TIME_EXACT", "ALTERNATIVE_KEY", "APPEND_SEGMENT"}
HeaderMismatchStrategy == {"STRICT", "UNION", "MAP"}

(***************************************************************************)
(* Spec: Tests and DataFiles.                                              *)
(***************************************************************************)
TestIds == {"t1", "t2"}
HeaderNames == {"Time", "A", "B"}
\* The header rows of the files on disk; the k-th DataFile created is read from the k-th.
Disk == << <<"Time", "A">>, <<"Time", "B">>, <<"B", "Time">>, <<"A", "Time">> >>
\* The strategy add_headers_file_to_test is called with in Spec (its default argument).
HeadersFileStrategies == {"TIME_NEAREST"}

\* A ChannelMetadata object: obj is the column it was created for (its identity within
\* its DataFile), original_name its mutable field. NoMeta: the dict has no such key.
NoMeta == [obj |-> None, original_name |-> None]
\* A reference to a ChannelMetadata object held by a Test. NoRef: no such key.
NoRef == [file |-> 0, obj |-> None]

\* FileReader._read_text_file: a fresh DataFile whose metadata has one entry per column.
ReadFile(hs) ==
    [headers |-> hs,
     channel_metadata |->
        [h \in HeaderNames |->
            IF h \in Range(hs) THEN [obj |-> h, original_name |-> h] ELSE NoMeta],
     join_strategy |-> None]

\* Test(): the dataclass defaults.
NewTest ==
    [data_files |-> <<>>,
     canonical_headers |-> <<>>,
     canonical_metadata |-> [h \in HeaderNames |-> NoRef]]

\* Test._update_canonical_headers, the union of the members' headers.
AllHeaders(dfs, fs) == UNION {Range(fs[dfs[i]].headers) : i \in DOMAIN dfs}

\* (a variant that keeps every existing canonical header, also those of removed files)
KeptHeadersStale(canon, all) == canon

\* The existing canonical headers that are still in the union, in order.
KeptHeaders(canon, all) == SelectSeq(canon, LAMBDA h : h \in all)

\* The headers not yet listed are appended in the iteration order of the set all_headers.
CanonicalHeaderChoices(dfs, canon, fs) ==
    LET all == AllHeaders(dfs, fs)
        kept == KeptHeaders(canon, all)
    IN  {kept \o new : new \in SetOrders(all \ Range(kept))}

\* A header without canonical metadata takes the object of the first member file that
\* has one.
FirstOwner(dfs, h, fs) ==
    LET has == {i \in DOMAIN dfs : fs[dfs[i]].channel_metadata[h] # NoMeta}
        i == CHOOSE k \in has : \A j \in has : k <= j
    IN  IF has = {} THEN NoRef
        ELSE [file |-> dfs[i], obj |-> fs[dfs[i]].channel_metadata[h].obj]

UpdateCanonicalMetadata(dfs, meta, fs) ==
    [h \in HeaderNames |-> IF meta[h] # NoRef THEN meta[h] ELSE FirstOwner(dfs, h, fs)]

\* The Test after _update_canonical_headers, for one iteration order ch.
Updated(dfs, t, ch, fs) ==
    [data_files |-> dfs,
     canonical_headers |-> ch,
     canonical_metadata |-> UpdateCanonicalMetadata(dfs, t.canonical_metadata, fs)]

\* Test.add_data_file: the Tests it can leave t as.
AddDataFile(t, f, fs) ==
    LET dfs == Append(t.data_files, f)
    IN  {Updated(dfs, t, ch, fs) : ch \in CanonicalHeaderChoices(dfs, t.canonical_headers, fs)}

\* remove_data_file: the list without its first entry with that id.
FirstIndex(dfs, f) == CHOOSE i \in DOMAIN dfs : dfs[i] = f /\ \A j \in 1..(i - 1) : dfs[j] # f

WithoutIndex(dfs, i) == SubSeq(dfs, 1, i - 1) \o SubSeq(dfs, i + 1, Len(dfs))

\* compute_header_diff, the three exact sets (HeaderDiffOf below sorts them).
Matched(test_headers, file_headers) == Range(test_headers) \cap Range(file_headers)
\* (a variant with the two differences exchanged)
MissingSwapped(test_headers, file_headers) == Range(file_headers) \ Range(test_headers)
Missing(test_headers, file_headers) == Range(test_headers) \ Range(file_headers)
Extra(test_headers, file_headers) == Range(file_headers) \ Range(test_headers)

\* HeaderDiff.has_differences
HasDifferences(missing, extra) == missing # {} \/ extra # {}

\* A column mapping old -> new as a function on all names, None where old is no key.
NoMapping == [h \in HeaderNames |-> None]
MappingKeys(m) == {h \in DOMAIN m : m[h] # None}
Renamed(m, h) == IF h \in DOMAIN m /\ m[h] # None THEN m[h] ELSE h

\* apply_header_mapping, the metadata dict: the renamed entries in the mapping's item
\* order (a later one overwrites), then the entries whose key is no key of the mapping.
RekeyedMetadata(meta, m, order) ==
    [n \in DOMAIN meta |->
        IF n \notin MappingKeys(m) /\ meta[n] # NoMeta THEN meta[n]
        ELSE LET from == {i \in DOMAIN order : m[order[i]] = n /\ meta[order[i]] # NoMeta}
                 i == CHOOSE k \in from : \A j \in from : j <= k
             IN  IF from = {} THEN NoMeta
                 ELSE [obj |-> meta[order[i]].obj, original_name |-> n]]

\* apply_header_mapping(data_file, column_mapping) on a DataFile with loaded data.
ApplyHeaderMapping(df, m, order) ==
    [df EXCEPT
        !.headers = [i \in DOMAIN df.headers |-> Renamed(m, df.headers[i])],
        !.channel_metadata = RekeyedMetadata(df.channel_metadata, m, order)]

\* HeaderDiffDialog.get_result: the mappings are collected only for MAP; every row of the
\* table is an extra header, its text one of the names or empty.
DialogMappings(strategy, extra) ==
    IF strategy = "MAP"
    THEN {m \in [HeaderNames -> HeaderNames \cup {None}] : MappingKeys(m) \subseteq extra}
    ELSE {NoMapping}

Created == DOMAIN files
Members == UNION {Range(tests[t].data_files) : t \in TestIds}
TotalMembers == Len(tests["t1"].data_files) + Len(tests["t2"].data_files)

\* No header-mismatch dialog was shown by the latest step.
NoDialog == [test |-> None, result |-> None, strategy |-> None]

SpecIdle ==
    /\ diff_in = Idle /\ diff_out = Idle
    /\ tfile = Idle /\ time_out = Idle
    /\ mtest = Idle /\ merged = Idle
    /\ call = Idle /\ ret = Idle /\ fm = Idle /\ plot_container = Idle

Init ==
    /\ files = <<>>
    /\ tests = [t \in TestIds |-> NewTest]
    /\ last = NoDialog
    /\ SpecIdle

\* FileReader.read_file: a DataFile is created from the next file on disk.
read_file ==
    /\ Len(files) < MaxFiles
    /\ files' = Append(files, ReadFile(Disk[Len(files) + 1]))
    /\ last' = NoDialog
    /\ UNCHANGED <<tests, diff_in, diff_out, tfile, time_out, mtest, merged, call, ret, fm, plot_container>>

\* Test.add_data_file(data_file)
add_data_file(t, f) ==
    /\ f \in Created
    /\ TotalMembers < MaxMembers
    /\ \E nt \in AddDataFile(tests[t], f, files) : tests' = [tests EXCEPT ![t] = nt]
    /\ last' = NoDialog
    /\ UNCHANGED <<files, diff_in, diff_out, tfile, time_out, mtest, merged, call, ret, fm, plot_container>>

\* Test.remove_data_file(file_id): returns False and changes nothing for an unknown id.
\* MainWindow.on_delete_item calls it on each Test in turn until one returns True.
remove_data_file(t, f) ==
    /\ f \in Created
    /\ IF f \in Range(tests[t].data_files)
       THEN LET dfs == WithoutIndex(tests[t].data_files, FirstIndex(tests[t].data_files, f))
            IN  \E ch \in CanonicalHeaderChoices(dfs, tests[t].canonical_headers, files) :
                    tests' = [tests EXCEPT ![t] = Updated(dfs, tests[t], ch, files)]
       ELSE UNCHANGED tests
    /\ last' = NoDialog
    /\ UNCHANGED <<files, diff_in, diff_out, tfile, time_out, mtest, merged, call, ret, fm, plot_container>>

\* add_headers_file_to_test(test, new_file, join_strategy): the join parameters are
\* recorded on the file, then the file is added.
add_headers_file_to_test(t, f, strategy) ==
    /\ f \in Created
    /\ TotalMembers < MaxMembers
    /\ LET fs == [files EXCEPT ![f].join_strategy = strategy]
       IN  /\ files' = fs
           /\ \E nt \in AddDataFile(tests[t], f, fs) : tests' = [tests EXCEPT ![t] = nt]
    /\ last' = NoDialog
    /\ UNCHANGED <<diff_in, diff_out, tfile, time_out, mtest, merged, call, ret, fm, plot_container>>

\* MainWindow.on_add_files_to_test with one file chosen: the file is read, its headers
\* are compared with the Test's, the dialog (if any) is answered, the file is added.
on_add_files_to_test(t, result, strategy) ==
    /\ Len(files) < MaxFiles
    /\ TotalMembers < MaxMembers
    /\ LET f == Len(files) + 1
           data_file == ReadFile(Disk[f])
           canon == tests[t].canonical_headers
           missing == Missing(canon, data_file.headers)
           extra == Extra(canon, data_file.headers)
       IN  IF canon # <<>> /\ HasDifferences(missing, extra)
           THEN /\ last' = [test |-> t, result |-> result, strategy |-> strategy]
                /\ IF result = "Rejected"
                   THEN /\ files' = Append(files, data_file)
                        /\ UNCHANGED tests
                   ELSE \E m \in DialogMappings(strategy, extra) :
                        \E order \in SetOrders(MappingKeys(m)) :
                            LET mapped == IF MappingKeys(m) # {}
                                          THEN ApplyHeaderMapping(data_file, m, order)
                                          ELSE data_file
                                fs == Append(files, mapped)
                            IN  /\ files' = fs
                                /\ \E nt \in AddDataFile(tests[t], f, fs) :
                                       tests' = [tests EXCEPT ![t] = nt]
           ELSE /\ result = "Accepted" /\ strategy = "UNION"
                /\ last' = NoDialog
                /\ LET fs == Append(files, data_file)
                   IN  /\ files' = fs
                       /\ \E nt \in AddDataFile(tests[t], f, fs) :
                              tests' = [tests EXCEPT ![t] = nt]
    /\ UNCHANGED <<diff_in, diff_out, tfile, time_out, mtest, merged, call, ret, fm, plot_container>>

Next ==
    \/ read_file
    \/ \E t \in TestIds, f \in 1..MaxFiles : add_data_file(t, f)
    \/ \E t \in TestIds, f \in 1..MaxFiles : remove_data_file(t, f)
    \/ \E t \in TestIds, f \in 1..MaxFiles, s \in HeadersFileStrategies :
           add_headers_file_to_test(t, f, s)
    \/ \E t \in TestIds, r \in {"Accepted", "Rejected"}, s \in HeaderMismatchStrategy :
           on_add_files_to_test(t, r, s)

Spec == Init /\ [][Next]_vars

(***************************************************************************)
(* SpecDiff: compute_header_diff.                                          *)
(*                                                                         *)
(* TLC cannot look into a string, so CharsOf spells each header out.       *)
(***************************************************************************)
DiffNames == {"ab", "AB", "abc", "a b", "b a", "x"}
FuzzyThresholds == {0, 80, 81, 100}

CharsOf(h) ==
    CASE h = "ab" -> <<"a", "b">>
      [] h = "AB" -> <<"A", "B">>
      [] h = "abc" -> <<"a", "b", "c">>
      [] h = "a b" -> <<"a", " ", "b">>
      [] h = "b a" -> <<"b", " ", "a">>
      [] h = "x" -> <<"x">>

\* The code point of a character.
Ord(c) ==
    CASE c = " " -> 32 [] c = "A" -> 65 [] c = "B" -> 66
      [] c = "a" -> 97 [] c = "b" -> 98 [] c = "c" -> 99 [] c = "x" -> 120

\* str.lower() on one character.
LowerChar(c) == CASE c = "A" -> "a" [] c = "B" -> "b" [] OTHER -> c

Lower(cs) == [i \in DOMAIN cs |-> LowerChar(cs[i])]

\* Python's < on strings: by code point, a proper prefix first.
RECURSIVE StrLess(_, _)
StrLess(a, b) ==
    IF b = <<>> THEN FALSE
    ELSE IF a = <<>> THEN TRUE
    ELSE IF Ord(Head(a)) # Ord(Head(b)) THEN Ord(Head(a)) < Ord(Head(b))
    ELSE StrLess(Tail(a), Tail(b))

\* sorted(list of strings), for a duplicate-free collection given as a set of headers.
Sorted(S) ==
    CHOOSE s \in SetOrders(S) :
        \A i \in 1..(Len(s) - 1) : StrLess(CharsOf(s[i]), CharsOf(s[i + 1]))

\* str.split(): the whitespace-separated tokens of a string.
RECURSIVE Split(_)
Split(cs) ==
    IF cs = <<>> THEN <<>>
    ELSE IF Head(cs) = " " THEN Split(Tail(cs))
    ELSE LET stops == {i \in DOMAIN cs : cs[i] = " "}
             n == IF stops = {} THEN Len(cs) + 1 ELSE CHOOSE i \in stops : \A j \in stops : i <= j
         IN  <<SubSeq(cs, 1, n - 1)>> \o Split(SubSeq(cs, n, Len(cs)))

\* sorted(tokens)
RECURSIVE SortTokens(_)
SortTokens(ts) ==
    IF ts = <<>> THEN <<>>
    ELSE LET least == CHOOSE i \in DOMAIN ts : \A j \in DOMAIN ts : ~StrLess(ts[j], ts[i])
         IN  <<ts[least]>> \o SortTokens(WithoutIndex(ts, least))

\* " ".join(tokens)
RECURSIVE Join(_)
Join(ts) ==
    IF ts = <<>> THEN <<>>
    ELSE IF Len(ts) = 1 THEN ts[1]
    ELSE ts[1] \o <<" ">> \o Join(Tail(ts))

\* The length of a longest common subsequence.
RECURSIVE LCS(_, _)
LCS(a, b) ==
    IF a = <<>> \/ b = <<>> THEN 0
    ELSE IF Head(a) = Head(b) THEN 1 + LCS(Tail(a), Tail(b))
    ELSE LET x == LCS(Tail(a), b)
             y == LCS(a, Tail(b))
         IN  IF x >= y THEN x ELSE y

\* rapidfuzz fuzz.token_sort_ratio: the normalised Indel similarity, 200 * LCS / (the
\* two lengths together), of the token-sorted strings; kept as a fraction num / den.
TokenSortRatio(a, b) ==
    LET x == Join(SortTokens(Split(a)))
        y == Join(SortTokens(Split(b)))
    IN  IF Len(x) + Len(y) = 0 THEN [num |-> 100, den |-> 1]
        ELSE [num |-> 200 * LCS(x, y), den |-> Len(x) + Len(y)]

\* The score of line 324 for every pair of headers.
ScoreTable ==
    [e \in DiffNames, m \in DiffNames |-> TokenSortRatio(Lower(CharsOf(e)), Lower(CharsOf(m)))]

Score(e, m) == ScoreTable[e, m]

ScoreGreater(s, t) == s.num * t.den > t.num * s.den
ScoreAtLeast(s, threshold) == s.num >= threshold * s.den

\* (a variant that takes every candidate reaching the threshold, not only a better one)
AnyCandidate(score, best_score, threshold) == ScoreAtLeast(score, threshold)

\* line 325: score > best_score and score >= fuzzy_threshold
BetterCandidate(score, best_score, threshold) ==
    ScoreGreater(score, best_score) /\ ScoreAtLeast(score, threshold)

\* lines 319-327: the loop over the missing headers, in the list's order.
RECURSIVE BestMatch(_, _, _, _)
BestMatch(extra_h, missing, threshold, best) ==
    IF missing = <<>> THEN best
    ELSE LET score == Score(extra_h, Head(missing))
         IN  BestMatch(extra_h, Tail(missing), threshold,
                       IF BetterCandidate(score, best.score, threshold)
                       THEN [match |-> Head(missing), score |-> score]
                       ELSE best)

NoBest == [match |-> None, score |-> [num |-> 0, den |-> 1]]

\* compute_header_diff(test_headers, file_headers, fuzzy_threshold) where list(set) gives
\* the missing headers in the order missing_order.
HeaderDiffOf(test_headers, file_headers, fuzzy_threshold, missing_order) ==
    LET extra == Extra(test_headers, file_headers)
        missing == Missing(test_headers, file_headers)
    IN  [done |-> TRUE,
         missing |-> Sorted(missing),
         extra |-> Sorted(extra),
         matched |-> Sorted(Matched(test_headers, file_headers)),
         fuzzy_matches |->
            [h \in DiffNames |->
                IF h \in extra
                THEN BestMatch(h, missing_order, fuzzy_threshold, NoBest).match
                ELSE None],
         has_differences |-> HasDifferences(missing, extra)]

\* Header lists: ordered, duplicate-free, at most MaxHeaders names.
HeaderLists == UNION {SetOrders(S) : S \in {T \in SUBSET DiffNames : Cardinality(T) <= MaxHeaders}}

InitDiff ==
    /\ diff_in \in [done : {TRUE}, test_headers : HeaderLists, file_headers : HeaderLists,
                    fuzzy_threshold : FuzzyThresholds]
    /\ diff_out = Idle
    /\ files = <<>> /\ tests = [t \in TestIds |-> NewTest] /\ last = NoDialog
    /\ tfile = Idle /\ time_out = Idle /\ mtest = Idle /\ merged = Idle
    /\ call = Idle /\ ret = Idle /\ fm = Idle /\ plot_container = Idle

compute_header_diff ==
    /\ diff_out = Idle
    /\ \E missing_order \in SetOrders(Missing(diff_in.test_headers, diff_in.file_headers)) :
           diff_out' = HeaderDiffOf(diff_in.test_headers, diff_in.file_headers,
                                    diff_in.fuzzy_threshold, missing_order)
    /\ UNCHANGED <<files, tests, last, diff_in, tfile, time_out, mtest, merged, call, ret, fm, plot_container>>

NextDiff == compute_header_diff

SpecDiff == InitDiff /\ [][NextDiff]_vars

(***************************************************************************)
(* SpecTime: DataFile.get_time_data on one DataFile.  Times are integers.  *)
(***************************************************************************)
RawTimes == {1, 2, 3}
TimeOffsets == {-1, 0, 2}
TimeScales == {1, 2, 3}

\* (a variant that scales before it adds the offset)
ScaleThenOffset(time_data, time_offset, time_scale) ==
    [i \in DOMAIN time_data |-> time_data[i] * time_scale + time_offset]

\* line 179: (time_data + self.time_offset) * self.time_scale
OffsetThenScale(time_data, time_offset, time_scale) ==
    [i \in DOMAIN time_data |-> (time_data[i] + time_offset) * time_scale]

\* lines 176-177: time_data - time_data[0] in RELATIVE mode, unless there is no row.
ModeShift(time_data, time_mode) ==
    IF time_mode = "RELATIVE" /\ Len(time_data) > 0
    THEN [i \in DOMAIN time_data |-> time_data[i] - time_data[1]]
    ELSE time_data

\* DataFile.get_time_data; is_none is the early return of None.
GetTimeData(df) ==
    IF ~df.loaded \/ ~df.has_time_column
    THEN [done |-> TRUE, is_none |-> TRUE, data |-> <<>>]
    ELSE [done |-> TRUE, is_none |-> FALSE,
          data |-> OffsetThenScale(ModeShift(df.raw, df.time_mode), df.time_offset, df.time_scale)]

RawColumns == UNION {[1..n -> RawTimes] : n \in 0..MaxSamples}

InitTime ==
    /\ tfile \in [done : {TRUE}, loaded : BOOLEAN, has_time_column : BOOLEAN, raw : RawColumns,
                  time_mode : TimeMode, time_offset : TimeOffsets, time_scale : TimeScales]
    /\ time_out = Idle
    /\ files = <<>> /\ tests = [t \in TestIds |-> NewTest] /\ last = NoDialog
    /\ diff_in = Idle /\ diff_out = Idle /\ mtest = Idle /\ merged = Idle
    /\ call = Idle /\ ret = Idle /\ fm = Idle /\ plot_container = Idle

get_time_data ==
    /\ time_out = Idle
    /\ time_out' = GetTimeData(tfile)
    /\ UNCHANGED <<files, tests, last, diff_in, diff_out, tfile, mtest, merged, call, ret, fm, plot_container>>

NextTime == get_time_data

SpecTime == InitTime /\ [][NextTime]_vars

(***************************************************************************)
(* SpecMerge: Test.get_merged_dataframe on a Test of up to MaxTestFiles     *)
(* DataFiles.                                                              *)
(*                                                                         *)
(* A table is [cols, rows]: the column names in order and the rows, each a *)
(* function from the column names to numbers.  NaN is the missing value.   *)
(* sort_values is modelled as a stable sort, the order numpy gives tables  *)
(* this short; a call that raises gives a result with raised = TRUE.       *)
(* pandas 2 raises MergeError when the suffixes of a join make two columns *)
(* of a side the same label, pandas 1 only warned: suffix_error says which *)
(* pandas runs.  A label that a table has twice holds one value per row.   *)
(***************************************************************************)
NaN == 999
PlotTimeCol == "_plot_time_"
JoinTolerances == {0, 1}

\* The value a file holds in column c, row i; raw is its Time column.
Cell(c, i, raw) ==
    CASE c = "Time" -> raw[i] [] c = "K" -> i [] c = "A" -> 10 + i [] c = "B" -> 20 + i

\* DataFile.dataframe
Frame(df) ==
    [cols |-> df.columns,
     rows |-> [i \in DOMAIN df.raw |-> [c \in Range(df.columns) |-> Cell(c, i, df.raw)]]]

\* temp_df[c] = vals
WithColumn(tb, c, vals) ==
    [cols |-> IF c \in Range(tb.cols) THEN tb.cols ELSE Append(tb.cols, c),
     rows |-> [i \in DOMAIN tb.rows |->
                  [d \in Range(tb.cols) \cup {c} |-> IF d = c THEN vals[i] ELSE tb.rows[i][d]]]]

\* lines 325-331: the copy of the file's table with its plot time.
TempFrame(df, time_col) ==
    LET plot_time == GetTimeData(df)
        temp_df == Frame(df)
    IN  IF ~plot_time.is_none /\ time_col \in Range(temp_df.cols)
        THEN WithColumn(temp_df, PlotTimeCol, plot_time.data)
        ELSE IF time_col \in Range(temp_df.cols)
        THEN WithColumn(temp_df, PlotTimeCol, [i \in DOMAIN temp_df.rows |-> temp_df.rows[i][time_col]])
        ELSE temp_df

\* Ascending order of cell values, missing values last.
Before(a, b) == a # NaN /\ (b = NaN \/ a < b)

\* DataFrame.sort_values(c): ascending, rows with equal values keep their order.
RECURSIVE SortValues(_, _)
SortValues(rows, c) ==
    IF rows = <<>> THEN <<>>
    ELSE LET least == CHOOSE i \in DOMAIN rows :
                          /\ \A j \in DOMAIN rows : ~Before(rows[j][c], rows[i][c])
                          /\ \A j \in 1..(i - 1) : Before(rows[i][c], rows[j][c])
         IN  <<rows[least]>> \o SortValues(WithoutIndex(rows, least), c)

\* The rows of a join: pairs[k] = <<l, r>> joins row l of left and row r of right, 0 for
\* no row.  Columns that both sides have, the key aside, get the suffixes.
JoinRows(left, right, key, lsuffix, rsuffix, pairs) ==
    LET overlap == (Range(left.cols) \cap Range(right.cols)) \ {key}
        lname(c) == IF c \in overlap THEN c \o lsuffix ELSE c
        rname(c) == IF c \in overlap THEN c \o rsuffix ELSE c
        rcols == SelectSeq(right.cols, LAMBDA c : c # key)
        cols == [i \in DOMAIN left.cols |-> lname(left.cols[i])]
                    \o [i \in DOMAIN rcols |-> rname(rcols[i])]
        row(p) ==
            [c \in Range(cols) |->
                IF c = key
                THEN IF p[1] # 0 THEN left.rows[p[1]][key] ELSE right.rows[p[2]][key]
                ELSE IF \E d \in Range(left.cols) : lname(d) = c
                THEN IF p[1] = 0 THEN NaN
                     ELSE left.rows[p[1]][CHOOSE d \in Range(left.cols) : lname(d) = c]
                ELSE IF p[2] = 0 THEN NaN
                     ELSE right.rows[p[2]][CHOOSE d \in Range(rcols) : rname(d) = c]]
    IN  [cols |-> cols, rows |-> [k \in DOMAIN pairs |-> row(pairs[k])]]

\* The suffixes give two columns of a side, of different names so far, the same label.
SuffixClash(left, right, key, lsuffix, rsuffix) ==
    LET overlap == (Range(left.cols) \cap Range(right.cols)) \ {key}
        lname(c) == IF c \in overlap THEN c \o lsuffix ELSE c
        rname(c) == IF c \in overlap THEN c \o rsuffix ELSE c
    IN  \/ \E c, d \in Range(left.cols) : c # d /\ lname(c) = lname(d)
        \/ \E c, d \in Range(right.cols) \ {key} : c # d /\ rname(c) = rname(d)

PairKey(p, lrows, rrows, key) == IF p[1] # 0 THEN lrows[p[1]][key] ELSE rrows[p[2]][key]

\* An outer join gives its rows by key, then in the order of the left and the right rows.
RECURSIVE OrderPairs(_, _, _, _)
OrderPairs(P, lrows, rrows, key) ==
    IF P = {} THEN <<>>
    ELSE LET k(p) == PairKey(p, lrows, rrows, key)
             first == CHOOSE p \in P : \A q \in P \ {p} :
                          \/ Before(k(p), k(q))
                          \/ k(p) = k(q) /\ (p[1] < q[1] \/ (p[1] = q[1] /\ p[2] < q[2]))
         IN  <<first>> \o OrderPairs(P \ {first}, lrows, rrows, key)

\* pd.merge(left, right, on=key, how="outer", suffixes=(lsuffix, rsuffix))
OuterMerge(left, right, key, lsuffix, rsuffix) ==
    LET L == DOMAIN left.rows
        R == DOMAIN right.rows
        both == {<<l, r>> \in L \X R : left.rows[l][key] = right.rows[r][key]}
        lonly == {<<l, 0>> : l \in {i \in L : \A r \in R : left.rows[i][key] # right.rows[r][key]}}
        ronly == {<<0, r>> : r \in {i \in R : \A l \in L : left.rows[l][key] # right.rows[i][key]}}
    IN  JoinRows(left, right, key, lsuffix, rsuffix,
                 OrderPairs(both \cup lonly \cup ronly, left.rows, right.rows, key))

\* (a variant that looks backward only: the last row at or before t, within the tolerance)
NearestBackward(t, rrows, key, tolerance) ==
    LET B == {j \in DOMAIN rrows : rrows[j][key] <= t /\ t - rrows[j][key] <= tolerance}
    IN  IF B = {} THEN 0 ELSE CHOOSE j \in B : \A i \in B : i <= j

\* The row of the sorted rrows that merge_asof(direction="nearest") gives a left row with
\* key t: the last row at or before t or the first at or after it, each only within the
\* tolerance; the nearer one, the earlier one when both are as near.  0 for none.
Nearest(t, rrows, key, tolerance) ==
    LET B == {j \in DOMAIN rrows : rrows[j][key] <= t}
        F == {j \in DOMAIN rrows : rrows[j][key] >= t}
        b == IF B = {} THEN 0 ELSE CHOOSE j \in B : \A i \in B : i <= j
        f == IF F = {} THEN 0 ELSE CHOOSE j \in F : \A i \in F : j <= i
        bri == IF b # 0 /\ t - rrows[b][key] <= tolerance THEN b ELSE 0
        fri == IF f # 0 /\ rrows[f][key] - t <= tolerance THEN f ELSE 0
    IN  IF bri # 0 /\ fri # 0
        THEN IF t - rrows[bri][key] <= rrows[fri][key] - t THEN bri ELSE fri
        ELSE IF bri # 0 THEN bri ELSE fri

\* lines 342-348: pd.merge_asof of the two tables, each sorted by the key.
AsofMerge(left, right, key, tolerance) ==
    LET lsorted == [cols |-> left.cols, rows |-> SortValues(left.rows, key)]
        rsorted == [cols |-> right.cols, rows |-> SortValues(right.rows, key)]
    IN  JoinRows(lsorted, rsorted, key, "_x", "_y",
                 [i \in DOMAIN lsorted.rows |->
                     <<i, Nearest(lsorted.rows[i][key], rsorted.rows, key, tolerance)>>])

\* pd.concat([left, right], ignore_index=True)
Concat(left, right) ==
    LET cols == left.cols \o SelectSeq(right.cols, LAMBDA c : c \notin Range(left.cols))
        widen(r) == [c \in Range(cols) |-> IF c \in DOMAIN r THEN r[c] ELSE NaN]
    IN  [cols |-> cols,
         rows |-> [i \in DOMAIN left.rows |-> widen(left.rows[i])]
                      \o [i \in DOMAIN right.rows |-> widen(right.rows[i])]]

\* c.endswith("_dup"), for the names a join of the files' columns can give.
EndsWithDup(c) == c \in {d \o "_dup" : d \in HeaderNames \cup {"K", PlotTimeCol}}

\* result[[c for c in result.columns if not c.endswith("_dup")]]
SelectColumns(tb, keep) ==
    [cols |-> SelectSeq(tb.cols, LAMBDA c : c \in keep),
     rows |-> [i \in DOMAIN tb.rows |-> [c \in Range(tb.cols) \cap keep |-> tb.rows[i][c]]]]

DropDup(tb) == SelectColumns(tb, {c \in Range(tb.cols) : ~EndsWithDup(c)})

\* The accumulated result of the loop: not yet any table, a table, or an exception.
NoResult == [status |-> "none", cols |-> <<>>, rows |-> <<>>]
Raised == [status |-> "raised", cols |-> <<>>, rows |-> <<>>]
Ok(tb) == [status |-> "ok", cols |-> tb.cols, rows |-> tb.rows]

\* lines 333-358: the first table, or the join by the file's strategy.  A join on a key
\* column that a side lacks raises KeyError, merge_asof on a missing key value ValueError,
\* a clash of suffixed labels MergeError where pandas makes it an error.
MergeStep(result, df, temp_df, suffix_error) ==
    IF result.status = "none" THEN Ok(temp_df)
    ELSE IF df.join_strategy = "APPEND_SEGMENT" THEN Ok(Concat(result, temp_df))
    ELSE IF PlotTimeCol \notin Range(result.cols) \/ PlotTimeCol \notin Range(temp_df.cols)
    THEN Raised
    ELSE IF df.join_strategy = "TIME_NEAREST"
    THEN IF \/ \E i \in DOMAIN result.rows : result.rows[i][PlotTimeCol] = NaN
            \/ suffix_error /\ SuffixClash(result, temp_df, PlotTimeCol, "_x", "_y")
         THEN Raised
         ELSE Ok(AsofMerge(result, temp_df, PlotTimeCol, df.join_tolerance))
    ELSE IF suffix_error /\ SuffixClash(result, temp_df, PlotTimeCol, "", "_dup")
    THEN Raised
    ELSE Ok(DropDup(OuterMerge(result, temp_df, PlotTimeCol, "", "_dup")))

\* lines 321-358: the loop over data_files; files without a dataframe are skipped.
RECURSIVE MergeFiles(_, _, _, _)
MergeFiles(dfs, time_col, result, suffix_error) ==
    IF dfs = <<>> \/ result.status = "raised" THEN result
    ELSE IF ~Head(dfs).loaded THEN MergeFiles(Tail(dfs), time_col, result, suffix_error)
    ELSE MergeFiles(Tail(dfs), time_col,
                    MergeStep(result, Head(dfs), TempFrame(Head(dfs), time_col), suffix_error),
                    suffix_error)

\* An Optional[float] bound of a filter.
Unset == [set |-> FALSE, value |-> 0]
Bound(v) == [set |-> TRUE, value |-> v]

\* (a variant with a strict lower bound)
Above(x, bound) == ~bound.set \/ (x # NaN /\ x > bound.value)

AtLeast(x, bound) == ~bound.set \/ (x # NaN /\ x >= bound.value)
AtMost(x, bound) == ~bound.set \/ (x # NaN /\ x <= bound.value)

\* FilterState.apply_to_dataframe
ApplyToDataframe(fs, tb, time_column) ==
    IF ~fs.enabled \/ tb.rows = <<>> \/ tb.cols = <<>> THEN tb
    ELSE LET mask(r) ==
                 /\ time_column \in Range(tb.cols) =>
                        AtLeast(r[time_column], fs.time_min) /\ AtMost(r[time_column], fs.time_max)
                 /\ \A ch \in DOMAIN fs.channel_filters :
                        ch \in Range(tb.cols) =>
                            /\ AtLeast(r[ch], fs.channel_filters[ch][1])
                            /\ AtMost(r[ch], fs.channel_filters[ch][2])
         IN  [cols |-> tb.cols, rows |-> SelectSeq(tb.rows, mask)]

\* Test.get_merged_dataframe(apply_filter)
GetMergedDataFrame(test, apply_filter, suffix_error) ==
    IF test.data_files = <<>> THEN NoResult
    ELSE LET time_col == IF test.primary_time_column # "" THEN test.primary_time_column
                         ELSE test.data_files[1].time_column
             result == MergeFiles(test.data_files, time_col, NoResult, suffix_error)
             sorted == IF PlotTimeCol \in Range(result.cols)
                       THEN [cols |-> result.cols, rows |-> SortValues(result.rows, PlotTimeCol)]
                       ELSE [cols |-> result.cols, rows |-> result.rows]
         IN  IF result.status # "ok" THEN result
             ELSE IF apply_filter /\ test.filter_state.enabled
             THEN Ok(ApplyToDataframe(test.filter_state, sorted, PlotTimeCol))
             ELSE Ok(sorted)

\* DataMerger.merge_on_alternative_key(base_df, new_df, key_column), how="outer"
MergeOnAlternativeKey(base_df, new_df, key_column) ==
    OuterMerge(base_df,
               SelectColumns(new_df, {key_column} \cup (Range(new_df.cols) \ Range(base_df.cols))),
               key_column, "_x", "_y")

\* The DataFiles of SpecMerge.
MergeTimes == {1, 2}
MergeRaw == UNION {[1..n -> MergeTimes] : n \in 1..MaxRows}

MergeFile(columns, time_column, raw, mode, offset, strategy, key, tolerance) ==
    [loaded |-> TRUE, columns |-> columns, time_column |-> time_column,
     has_time_column |-> time_column \in Range(columns), raw |-> raw,
     time_mode |-> mode, time_offset |-> offset, time_scale |-> 1,
     join_strategy |-> strategy, join_key |-> key, join_tolerance |-> tolerance]

\* The first file: columns Time, K and A, its time column found.
FirstFiles ==
    {MergeFile(<<"Time", "K", "A">>, "Time", raw, mode, 0, None, None, 0) :
        raw \in MergeRaw, mode \in {"ABSOLUTE", "RELATIVE"}}

\* What add_headers_file_to_test or a loaded layout records on a file.
JoinSettings ==
    {<<None, None, 0>>, <<"TIME_EXACT", None, 0>>, <<"ALTERNATIVE_KEY", "K", 0>>,
     <<"APPEND_SEGMENT", None, 0>>}
        \cup {<<"TIME_NEAREST", None, tol>> : tol \in JoinTolerances}

\* The second file: K and B, and a Time column that is its time column, or that is not,
\* or no Time column; or a file of a layout whose data is not loaded.
SecondFiles ==
    {MergeFile(c[1], c[2], raw, "ABSOLUTE", offset, j[1], j[2], j[3]) :
        c \in {<<<<"Time", "K", "B">>, "Time">>, <<<<"Time", "K", "B">>, "">>, <<<<"K", "B">>, "">>},
        raw \in MergeRaw, offset \in {0, 1}, j \in JoinSettings}
    \cup {[MergeFile(<<"Time", "K", "B">>, "Time", <<1>>, "ABSOLUTE", 0, j[1], j[2], j[3])
              EXCEPT !.loaded = FALSE] : j \in JoinSettings}

\* The files of a longer Test: one row each, the second file's columns.
LaterFiles ==
    {MergeFile(<<"Time", "K", "B">>, "Time", <<1>>, "ABSOLUTE", 0, j[1], j[2], j[3]) :
        j \in JoinSettings}

LongTests ==
    UNION {{<<MergeFile(<<"Time", "K", "A">>, "Time", <<2>>, "ABSOLUTE", 0, None, None, 0)>> \o later :
               later \in [1..n -> LaterFiles]} : n \in 2..(MaxTestFiles - 1)}

FilterStates ==
    {[enabled |-> f[1], time_min |-> f[2], time_max |-> Unset, channel_filters |-> <<>>] :
        f \in {<<TRUE, Unset>>, <<TRUE, Bound(2)>>, <<FALSE, Bound(2)>>}}

InitMerge ==
    /\ mtest \in [done : {TRUE}, primary_time_column : {""},
                  data_files : {<<>>} \cup {<<f>> : f \in FirstFiles}
                                   \cup (FirstFiles \X SecondFiles) \cup LongTests,
                  filter_state : FilterStates]
    /\ merged = Idle
    /\ files = <<>> /\ tests = [t \in TestIds |-> NewTest] /\ last = NoDialog
    /\ diff_in = Idle /\ diff_out = Idle /\ tfile = Idle /\ time_out = Idle
    /\ call = Idle /\ ret = Idle /\ fm = Idle /\ plot_container = Idle

get_merged_dataframe(apply_filter, suffix_error) ==
    /\ merged = Idle
    /\ LET result == GetMergedDataFrame(mtest, apply_filter, suffix_error)
       IN  merged' = [done |-> TRUE, apply_filter |-> apply_filter,
                      raised |-> result.status = "raised",
                      cols |-> result.cols, rows |-> result.rows]
    /\ UNCHANGED <<files, tests, last, diff_in, diff_out, tfile, time_out, mtest, call, ret, fm, plot_container>>

NextMerge == \E apply_filter, suffix_error \in BOOLEAN : get_merged_dataframe(apply_filter, suffix_error)

SpecMerge == InitMerge /\ [][NextMerge]_vars

(***************************************************************************)
(* SpecMerger: the DataMerger functions on a base and a new table.  Both   *)
(* tables have the time column Time and the channel A, the new table has B *)
(* as well; the cells of A and B tell the rows apart.                      *)
(***************************************************************************)
MergerTimes == {1, 2, 4}
MergerTolerances == {0, 1, 2}
MergerOffsets == {0, 3}

BaseTable(raw) ==
    [cols |-> <<"Time", "A">>,
     rows |-> [i \in DOMAIN raw |-> [c \in {"Time", "A"} |-> IF c = "Time" THEN raw[i] ELSE 10 + i]]]

NewTable(raw) ==
    [cols |-> <<"Time", "A", "B">>,
     rows |-> [i \in DOMAIN raw |->
                  [c \in {"Time", "A", "B"} |->
                      IF c = "Time" THEN raw[i] ELSE IF c = "A" THEN 30 + i ELSE 20 + i]]]

\* (a variant that keeps every column of the new table)
AllColumns(base_df, new_df, key) == Range(new_df.cols)

\* new_cols: the key and the columns of new_df that base_df does not have.
NewColumns(base_df, new_df, key) == {key} \cup (Range(new_df.cols) \ Range(base_df.cols))

\* DataMerger.merge_on_time_exact
MergeOnTimeExact(base_df, new_df, time_column) ==
    LET new_df_filtered == SelectColumns(new_df, NewColumns(base_df, new_df, time_column))
        result == OuterMerge(base_df, new_df_filtered, time_column, "_x", "_y")
    IN  [cols |-> result.cols, rows |-> SortValues(result.rows, time_column)]

\* DataMerger.merge_on_time_nearest, direction "nearest"
MergeOnTimeNearest(base_df, new_df, time_column, tolerance) ==
    AsofMerge(base_df, SelectColumns(new_df, NewColumns(base_df, new_df, time_column)),
              time_column, tolerance)

\* (a variant that leaves the time values as they are)
KeepTimes(tb, c, offset) == tb

\* new_df_copy[time_column] + time_offset
AddOffset(tb, c, offset) ==
    [cols |-> tb.cols,
     rows |-> [i \in DOMAIN tb.rows |-> [tb.rows[i] EXCEPT ![c] = IF @ = NaN THEN NaN ELSE @ + offset]]]

\* DataMerger.append_as_segment
AppendAsSegment(base_df, new_df, time_column, time_offset) ==
    LET new_df_copy == IF time_column \in Range(new_df.cols) /\ time_offset # 0
                       THEN AddOffset(new_df, time_column, time_offset)
                       ELSE new_df
        result == Concat(base_df, new_df_copy)
    IN  IF time_column \in Range(result.cols)
        THEN [cols |-> result.cols, rows |-> SortValues(result.rows, time_column)]
        ELSE result

MergerRaw == UNION {[1..n -> MergerTimes] : n \in 0..MaxRows}

InitMerger ==
    /\ call \in [done : {TRUE}, base_raw : MergerRaw, new_raw : MergerRaw]
    /\ ret = Idle
    /\ files = <<>> /\ tests = [t \in TestIds |-> NewTest] /\ last = NoDialog
    /\ diff_in = Idle /\ diff_out = Idle /\ tfile = Idle /\ time_out = Idle
    /\ mtest = Idle /\ merged = Idle /\ fm = Idle /\ plot_container = Idle

Returned(op, arg, tb) == [done |-> TRUE, op |-> op, arg |-> arg, cols |-> tb.cols, rows |-> tb.rows]

merge_on_time_exact ==
    /\ ret = Idle
    /\ ret' = Returned("merge_on_time_exact", 0,
                       MergeOnTimeExact(BaseTable(call.base_raw), NewTable(call.new_raw), "Time"))
    /\ UNCHANGED <<files, tests, last, diff_in, diff_out, tfile, time_out, mtest, merged, call, fm, plot_container>>

merge_on_time_nearest(tolerance) ==
    /\ ret = Idle
    /\ ret' = Returned("merge_on_time_nearest", tolerance,
                       MergeOnTimeNearest(BaseTable(call.base_raw), NewTable(call.new_raw),
                                          "Time", tolerance))
    /\ UNCHANGED <<files, tests, last, diff_in, diff_out, tfile, time_out, mtest, merged, call, fm, plot_container>>

append_as_segment(time_offset) ==
    /\ ret = Idle
    /\ ret' = Returned("append_as_segment", time_offset,
                       AppendAsSegment(BaseTable(call.base_raw), NewTable(call.new_raw),
                                       "Time", time_offset))
    /\ UNCHANGED <<files, tests, last, diff_in, diff_out, tfile, time_out, mtest, merged, call, fm, plot_container>>

NextMerger ==
    \/ merge_on_time_exact
    \/ \E tolerance \in MergerTolerances : merge_on_time_nearest(tolerance)
    \/ \E time_offset \in MergerOffsets : append_as_segment(time_offset)

SpecMerger == InitMerger /\ [][NextMerger]_vars

(***************************************************************************)
(* SpecApply: FilterState.apply_to_dataframe on a table of the columns     *)
(* Time and A, or of A only, some cells missing.                           *)
(***************************************************************************)
ApplyCells == {1, 2, NaN}

ApplyTables ==
    UNION {{[cols |-> <<"Time", "A">>, rows |-> rows] :
               rows \in [1..n -> [Time : ApplyCells, A : {1, 2}]]} : n \in 0..MaxRows}
    \cup UNION {{[cols |-> <<"A">>, rows |-> rows] : rows \in [1..n -> [A : {1, 2}]]} : n \in 1..MaxRows}
    \cup {[cols |-> <<>>, rows |-> <<>>]}

ChannelFilters ==
    {[ch \in {} |-> <<Unset, Unset>>],
     [ch \in {"A"} |-> <<Bound(2), Unset>>],
     [ch \in {"A"} |-> <<Unset, Bound(1)>>],
     [ch \in {"B"} |-> <<Bound(2), Bound(2)>>]}

ApplyFilterStates ==
    [enabled : BOOLEAN, time_min : {Unset, Bound(2)}, time_max : {Unset, Bound(1)},
     channel_filters : ChannelFilters]

InitApply ==
    /\ call \in [done : {TRUE}, filter_state : ApplyFilterStates, df : ApplyTables]
    /\ ret = Idle
    /\ files = <<>> /\ tests = [t \in TestIds |-> NewTest] /\ last = NoDialog
    /\ diff_in = Idle /\ diff_out = Idle /\ tfile = Idle /\ time_out = Idle
    /\ mtest = Idle /\ merged = Idle /\ fm = Idle /\ plot_container = Idle

apply_to_dataframe ==
    /\ ret = Idle
    /\ ret' = Returned("apply_to_dataframe", 0, ApplyToDataframe(call.filter_state, call.df, "Time"))
    /\ UNCHANGED <<files, tests, last, diff_in, diff_out, tfile, time_out, mtest, merged, call, fm, plot_container>>

NextApply == apply_to_dataframe

SpecApply == InitApply /\ [][NextApply]_vars

(***************************************************************************)
(* SpecFilter: the FilterManager with two Tests and its listener list.     *)
(*                                                                         *)
(* A listener is a callback that only takes note of the call: fm.last      *)
(* holds, for the latest call, the Qt signals emitted, the listeners       *)
(* invoked in order and the filter_state they could see.  fm.removed is    *)
(* history: the listeners remove_listener was called for and add_listener  *)
(* has not been called for since.                                          *)
(***************************************************************************)
ListenerIds == {"l1", "l2"}

\* FilterState()
DefaultFilterState ==
    [time_min |-> Unset, time_max |-> Unset, channel_filters |-> [ch \in {} |-> <<Unset, Unset>>],
     text_search |-> "", category_filter |-> <<>>, unit_filter |-> <<>>, enabled |-> TRUE]

\* What a call left behind: nothing emitted, nobody invoked.
Quiet(op, test_id) ==
    [op |-> op, test_id |-> test_id, signals |-> <<>>, notified |-> <<>>, seen |-> DefaultFilterState]

\* FilterManager._emit_change, called after the update: both signals, then every entry of
\* the listener list in order.
EmitChange(op, test_id, listeners, old, new) ==
    [op |-> op, test_id |-> test_id, signals |-> <<"filter_changed", "any_filter_changed">>,
     notified |-> listeners, seen |-> new]

\* (a variant that does not look the Test up)
MutateAny(op, test_id, new) ==
    /\ fm.calls < MaxCalls
    /\ fm' = [fm EXCEPT !.filter_state[test_id] = new,
                        !.calls = @ + 1,
                        !.last = EmitChange(op, test_id, fm.listeners,
                                            fm.filter_state[test_id], new)]
    /\ UNCHANGED <<files, tests, last, diff_in, diff_out, tfile, time_out, mtest, merged, call, ret, plot_container>>

\* FilterManager.get_test and get_filter_state: None, or the Test's FilterState.
GetFilterState(manager, test_id) ==
    IF manager.registered[test_id] THEN [set |-> TRUE, value |-> manager.filter_state[test_id]]
    ELSE [set |-> FALSE, value |-> DefaultFilterState]

\* The body shared by the mutators: test = self._tests.get(test_id); if test: update, emit.
Mutate(op, test_id, new) ==
    /\ fm.calls < MaxCalls
    /\ IF fm.registered[test_id]
       THEN fm' = [fm EXCEPT !.filter_state[test_id] = new,
                             !.calls = @ + 1,
                             !.last = EmitChange(op, test_id, fm.listeners,
                                                 fm.filter_state[test_id], new)]
       ELSE fm' = [fm EXCEPT !.calls = @ + 1, !.last = Quiet(op, test_id)]
    /\ UNCHANGED <<files, tests, last, diff_in, diff_out, tfile, time_out, mtest, merged, call, ret, plot_container>>

InitFilter ==
    /\ fm = [done |-> TRUE,
             registered |-> [t \in TestIds |-> FALSE],
             filter_state |-> [t \in TestIds |-> DefaultFilterState],
             listeners |-> <<>>,
             removed |-> {},
             calls |-> 0,
             last |-> Quiet(None, None)]
    /\ files = <<>> /\ tests = [t \in TestIds |-> NewTest] /\ last = NoDialog
    /\ diff_in = Idle /\ diff_out = Idle /\ tfile = Idle /\ time_out = Idle
    /\ mtest = Idle /\ merged = Idle /\ call = Idle /\ ret = Idle /\ plot_container = Idle

RestUnchanged ==
    UNCHANGED <<files, tests, last, diff_in, diff_out, tfile, time_out, mtest, merged, call, ret, plot_container>>

register_test(test_id) ==
    /\ fm' = [fm EXCEPT !.registered[test_id] = TRUE, !.last = Quiet("register_test", test_id)]
    /\ RestUnchanged

unregister_test(test_id) ==
    /\ fm' = [fm EXCEPT !.registered[test_id] = FALSE, !.last = Quiet("unregister_test", test_id)]
    /\ RestUnchanged

add_listener(callback) ==
    /\ Len(fm.listeners) < MaxListeners
    /\ fm' = [fm EXCEPT !.listeners = Append(@, callback),
                        !.removed = @ \ {callback},
                        !.last = Quiet("add_listener", None)]
    /\ RestUnchanged

remove_listener(callback) ==
    /\ fm' = [fm EXCEPT !.listeners = IF callback \in Range(@)
                                      THEN WithoutIndex(@, FirstIndex(@, callback))
                                      ELSE @,
                        !.removed = @ \cup {callback},
                        !.last = Quiet("remove_listener", None)]
    /\ RestUnchanged

set_time_range(test_id, time_min, time_max) ==
    Mutate("set_time_range", test_id,
           [fm.filter_state[test_id] EXCEPT !.time_min = time_min, !.time_max = time_max])

set_channel_filter(test_id, channel, min_val, max_val) ==
    Mutate("set_channel_filter", test_id,
           [fm.filter_state[test_id] EXCEPT !.channel_filters =
               IF ~min_val.set /\ ~max_val.set
               THEN [ch \in DOMAIN @ \ {channel} |-> @[ch]]
               ELSE [ch \in DOMAIN @ \cup {channel} |->
                        IF ch = channel THEN <<min_val, max_val>> ELSE @[ch]]])

set_text_search(test_id, search_text) ==
    Mutate("set_text_search", test_id,
           [fm.filter_state[test_id] EXCEPT !.text_search = search_text])

set_category_filter(test_id, categories) ==
    Mutate("set_category_filter", test_id,
           [fm.filter_state[test_id] EXCEPT !.category_filter = categories])

set_unit_filter(test_id, units) ==
    Mutate("set_unit_filter", test_id,
           [fm.filter_state[test_id] EXCEPT !.unit_filter = units])

set_filter_enabled(test_id, enabled) ==
    Mutate("set_filter_enabled", test_id,
           [fm.filter_state[test_id] EXCEPT !.enabled = enabled])

clear_filters(test_id) == Mutate("clear_filters", test_id, DefaultFilterState)

NextFilter ==
    \/ \E t \in TestIds : register_test(t) \/ unregister_test(t)
    \/ \E l \in ListenerIds : add_listener(l) \/ remove_listener(l)
    \/ \E t \in TestIds :
           \/ \E b \in {<<Unset, Unset>>, <<Bound(1), Bound(2)>>} : set_time_range(t, b[1], b[2])
           \/ \E b \in {<<Unset, Unset>>, <<Bound(1), Unset>>} : set_channel_filter(t, "A", b[1], b[2])
           \/ \E text \in {"", "a"} : set_text_search(t, text)
           \/ \E cats \in {<<>>, <<"Temperature">>} : set_category_filter(t, cats)
           \/ \E units \in {<<>>, <<"V">>} : set_unit_filter(t, units)
           \/ \E en \in BOOLEAN : set_filter_enabled(t, en)
           \/ clear_filters(t)

SpecFilter == InitFilter /\ [][NextFilter]_vars

(***************************************************************************)
(* SpecChannels: FilterManager.get_filtered_channels for one Test, whose   *)
(* canonical_metadata has an entry for a channel or has none.              *)
(***************************************************************************)
ChannelNames == {"AB", "x"}
SearchTexts == {"", "ab", "x"}

\* A ChannelMetadata of the Test, or NoChannel for a key canonical_metadata lacks.
NoChannel == [present |-> FALSE, display_name |-> "x", category |-> "Unknown", unit |-> ""]
ChannelMetas ==
    {NoChannel} \cup [present : {TRUE}, display_name : {"x", "ab"},
                      category : {"Temperature", "Unknown"}, unit : {"V", ""}]

\* a in b, for strings as sequences of characters
IsSubstring(a, b) == \E i \in 0..(Len(b) - Len(a)) : SubSeq(b, i + 1, i + Len(a)) = a

\* fs.text_search.lower() in name.lower()
TextIn(text, name) == IsSubstring(Lower(CharsOf(text)), Lower(CharsOf(name)))

\* lines 164-183: the channel is appended, no continue was taken.
ChannelKept(fs, canonical_metadata, ch) ==
    LET meta == canonical_metadata[ch]
    IN  /\ ~(/\ fs.text_search # ""
             /\ ~TextIn(fs.text_search, ch)
             /\ meta.present /\ ~TextIn(fs.text_search, meta.display_name))
        /\ ~(/\ fs.category_filter # <<>>
             /\ meta.present /\ meta.category \notin Range(fs.category_filter))
        /\ ~(/\ fs.unit_filter # <<>>
             /\ meta.present /\ meta.unit \notin Range(fs.unit_filter))

\* FilterManager.get_filtered_channels(test_id, all_channels)
GetFilteredChannels(registered, fs, canonical_metadata, all_channels) ==
    IF ~registered THEN all_channels
    ELSE SelectSeq(all_channels, LAMBDA ch : ChannelKept(fs, canonical_metadata, ch))

InitChannels ==
    /\ call \in [done : {TRUE}, registered : BOOLEAN,
                 text_search : SearchTexts,
                 category_filter : {<<>>, <<"Temperature">>},
                 unit_filter : {<<>>, <<"V">>},
                 canonical_metadata : [ChannelNames -> ChannelMetas],
                 all_channels : UNION {[1..n -> ChannelNames] : n \in 0..MaxChannels}]
    /\ ret = Idle
    /\ files = <<>> /\ tests = [t \in TestIds |-> NewTest] /\ last = NoDialog
    /\ diff_in = Idle /\ diff_out = Idle /\ tfile = Idle /\ time_out = Idle
    /\ mtest = Idle /\ merged = Idle /\ fm = Idle /\ plot_container = Idle

get_filtered_channels ==
    /\ ret = Idle
    /\ ret' = [done |-> TRUE, op |-> "get_filtered_channels",
               value |-> GetFilteredChannels(call.registered, call, call.canonical_metadata,
                                             call.all_channels)]
    /\ UNCHANGED <<files, tests, last, diff_in, diff_out, tfile, time_out, mtest, merged, call, fm, plot_container>>

NextChannels == get_filtered_channels

SpecChannels == InitChannels /\ [][NextChannels]_vars

(***************************************************************************)
(* SpecCompare: TestComparer.prepare_tests_for_comparison and              *)
(* get_combined_time_range over a list of Tests of one DataFile each.      *)
(***************************************************************************)
CompareGaps == {0, 1}
CompareOffsets == {0, -3}
CompareModes == {"OVERLAY", "CONCATENATE"}

SeqMin(vals) == CHOOSE v \in Range(vals) : \A w \in Range(vals) : v <= w
SeqMax(vals) == CHOOSE v \in Range(vals) : \A w \in Range(vals) : v >= w

\* DataFile.get_time_range
DataFileTimeRange(df) ==
    LET time_data == GetTimeData(df)
    IN  IF time_data.is_none \/ time_data.data = <<>> THEN <<0, 0>>
        ELSE <<SeqMin(time_data.data), SeqMax(time_data.data)>>

\* (a variant that reports the range of the first file alone)
FirstFileRange(test) ==
    IF test.data_files = <<>> THEN <<0, 0>> ELSE DataFileTimeRange(test.data_files[1])

\* Test.get_time_range: (0, 0) without files, else the hull of the files' ranges.
TestTimeRange(test) ==
    LET ranges == [i \in DOMAIN test.data_files |-> DataFileTimeRange(test.data_files[i])]
    IN  IF test.data_files = <<>> THEN <<0, 0>>
        ELSE <<SeqMin([i \in DOMAIN ranges |-> ranges[i][1]]),
               SeqMax([i \in DOMAIN ranges |-> ranges[i][2]])>>

\* The _plot_time_ column of a table.
PlotTimes(tb) == [i \in DOMAIN tb.rows |-> tb.rows[i][PlotTimeCol]]

\* df.empty
Empty(tb) == tb.rows = <<>> \/ tb.cols = <<>>

\* An entry of the result dict for the Test at a position of the list, or no entry.
NoEntry == [present |-> FALSE, cols |-> <<>>, rows |-> <<>>]
Entry(tb) == [present |-> TRUE, cols |-> tb.cols, rows |-> tb.rows]

\* (a variant that keeps every column)
KeepEveryColumn(df, selected_channels) == [cols |-> df.cols, rows |-> df.rows]

\* df[cols_to_keep].copy()
Prepared(df, selected_channels) ==
    LET cols_to_keep == <<PlotTimeCol>> \o SelectSeq(selected_channels, LAMBDA ch : ch \in Range(df.cols))
    IN  [cols |-> cols_to_keep,
         rows |-> [i \in DOMAIN df.rows |-> [c \in Range(cols_to_keep) |-> df.rows[i][c]]]]

\* df_copy["_plot_time_"] + cumulative_offset
ShiftPlotTime(tb, offset) ==
    WithColumn(tb, PlotTimeCol, [i \in DOMAIN tb.rows |-> tb.rows[i][PlotTimeCol] + offset])

\* lines 262-267: OVERLAY keeps every non-empty table with its own times.
Overlay(test_list, selected_channels) ==
    [i \in DOMAIN test_list |->
        LET df == GetMergedDataFrame(test_list[i], TRUE, FALSE)
        IN  IF Empty(df) THEN NoEntry ELSE Entry(Prepared(df, selected_channels))]

\* lines 273-297: the loop of CONCATENATE from the Test at position i (1-based) on.
RECURSIVE Concatenate(_, _, _, _, _)
Concatenate(test_list, i, cumulative_offset, gap, selected_channels) ==
    IF i > Len(test_list) THEN <<>>
    ELSE LET df == GetMergedDataFrame(test_list[i], TRUE, FALSE)
         IN  IF Empty(df)
             THEN <<NoEntry>> \o Concatenate(test_list, i + 1, cumulative_offset, gap, selected_channels)
             ELSE LET copy == Prepared(df, selected_channels)
                      df_copy == IF i > 1 THEN ShiftPlotTime(copy, cumulative_offset) ELSE copy
                      end_time == SeqMax(PlotTimes(df_copy))
                  IN  <<Entry(df_copy)>>
                          \o Concatenate(test_list, i + 1, end_time + gap, gap, selected_channels)

\* TestComparer.prepare_tests_for_comparison(test_list, selected_channels)
PrepareTestsForComparison(mode, gap, test_list, selected_channels) ==
    IF mode = "OVERLAY" THEN Overlay(test_list, selected_channels)
    ELSE Concatenate(test_list, 1, 0, gap, selected_channels)

\* lines 326-333: the sum of the Tests' durations and of a gap before every Test but the first.
RECURSIVE Cumulative(_, _, _)
Cumulative(test_list, i, gap) ==
    IF i > Len(test_list) THEN 0
    ELSE LET r == TestTimeRange(test_list[i])
         IN  (IF i > 1 THEN gap ELSE 0) + (r[2] - r[1]) + Cumulative(test_list, i + 1, gap)

\* TestComparer.get_combined_time_range(test_list)
GetCombinedTimeRange(mode, gap, test_list) ==
    IF test_list = <<>> THEN <<0, 1>>
    ELSE IF mode = "OVERLAY"
    THEN <<SeqMin([i \in DOMAIN test_list |-> TestTimeRange(test_list[i])[1]]),
           SeqMax([i \in DOMAIN test_list |-> TestTimeRange(test_list[i])[2]])>>
    ELSE <<0, Cumulative(test_list, 1, gap)>>

\* The raw time columns of the compared files, ascending.
CompareRaw == {raw \in MergeRaw : \A i \in 1..(Len(raw) - 1) : raw[i] < raw[i + 1]}

\* A Test of one file with columns Time and A, or a Test without files; its time filter
\* is unset or keeps the rows from time 2 on.
CompareTests ==
    {[primary_time_column |-> "", data_files |-> d, filter_state |-> fs] :
        d \in {<<>>} \cup {<<MergeFile(<<"Time", "A">>, "Time", raw, mode, offset, None, None, 0)>> :
                              raw \in CompareRaw, mode \in {"ABSOLUTE", "RELATIVE"},
                              offset \in CompareOffsets},
        fs \in {f \in FilterStates : f.enabled}}

InitCompare ==
    /\ call \in [done : {TRUE}, mode : CompareModes, gap : CompareGaps,
                 tests : UNION {[1..n -> CompareTests] : n \in 0..MaxCompared},
                 selected_channels : {<<"A", "B">>}]
    /\ ret = Idle
    /\ files = <<>> /\ tests = [t \in TestIds |-> NewTest] /\ last = NoDialog
    /\ diff_in = Idle /\ diff_out = Idle /\ tfile = Idle /\ time_out = Idle
    /\ mtest = Idle /\ merged = Idle /\ fm = Idle /\ plot_container = Idle

prepare_tests_for_comparison ==
    /\ ret = Idle
    /\ ret' = [done |-> TRUE, op |-> "prepare_tests_for_comparison",
               value |-> PrepareTestsForComparison(call.mode, call.gap, call.tests,
                                                   call.selected_channels)]
    /\ UNCHANGED <<files, tests, last, diff_in, diff_out, tfile, time_out, mtest, merged, call, fm, plot_container>>

get_combined_time_range ==
    /\ ret = Idle
    /\ ret' = [done |-> TRUE, op |-> "get_combined_time_range",
               value |-> GetCombinedTimeRange(call.mode, call.gap, call.tests)]
    /\ UNCHANGED <<files, tests, last, diff_in, diff_out, tfile, time_out, mtest, merged, call, fm, plot_container>>

NextCompare == prepare_tests_for_comparison \/ get_combined_time_range

SpecCompare == InitCompare /\ [][NextCompare]_vars

(***************************************************************************)
(* SpecRange: Test.get_time_range over Tests of up to MaxMembers files.    *)
(***************************************************************************)
\* Files with a time column of 0..MaxRows rows, ABSOLUTE with an offset or RELATIVE; a
\* file without a Time column; a file of a layout whose table is not loaded.
RangeFiles ==
    {MergeFile(<<"Time", "A">>, "Time", raw, mo[1], mo[2], None, None, 0) :
        raw \in UNION {[1..n -> MergeTimes] : n \in 0..MaxRows},
        mo \in {<<"ABSOLUTE", 0>>, <<"ABSOLUTE", -3>>, <<"RELATIVE", 0>>}}
    \cup {MergeFile(<<"A">>, "", <<1>>, "ABSOLUTE", 0, None, None, 0),
          [MergeFile(<<"Time", "A">>, "Time", <<1>>, "ABSOLUTE", 0, None, None, 0)
              EXCEPT !.loaded = FALSE]}

InitRange ==
    /\ call \in [done : {TRUE},
                 data_files : UNION {[1..n -> RangeFiles] : n \in 0..MaxMembers}]
    /\ ret = Idle
    /\ files = <<>> /\ tests = [t \in TestIds |-> NewTest] /\ last = NoDialog
    /\ diff_in = Idle /\ diff_out = Idle /\ tfile = Idle /\ time_out = Idle
    /\ mtest = Idle /\ merged = Idle /\ fm = Idle /\ plot_container = Idle

get_time_range ==
    /\ ret = Idle
    /\ ret' = [done |-> TRUE, op |-> "get_time_range", value |-> TestTimeRange(call)]
    /\ UNCHANGED <<files, tests, last, diff_in, diff_out, tfile, time_out, mtest, merged, call, fm, plot_container>>

NextRange == get_time_range

SpecRange == InitRange /\ [][NextRange]_vars

(***************************************************************************)
(* SpecAlign: the TimeAligner functions and compute_time_offset_for_concat *)
(* on floating-point numbers.  A float is modelled by an integer with at   *)
(* most Precision significant bits; every operation rounds its exact       *)
(* result to the nearest such number, ties to the even significand, as     *)
(* Python's float (53 bits) does.                                          *)
(***************************************************************************)
Precision == 3

\* The spacing of the floats around a magnitude a: 1 below 2^Precision, doubling above.
RECURSIVE Quantum(_)
Quantum(a) == IF a < 2 ^ Precision THEN 1 ELSE 2 * Quantum(a \div 2)

\* Round to nearest, ties to even, of a magnitude.
RoundMagnitude(a) ==
    LET q == Quantum(a)
        lo == (a \div q) * q
        r == a - lo
    IN  IF 2 * r < q THEN lo
        ELSE IF 2 * r > q THEN lo + q
        ELSE IF (lo \div q) % 2 = 0 THEN lo ELSE lo + q

\* The float nearest to an exact result.
Fl(x) == IF x < 0 THEN 0 - RoundMagnitude(0 - x) ELSE RoundMagnitude(x)

\* float + float and float - float
FAdd(a, b) == Fl(a + b)
FSub(a, b) == Fl(a - b)

\* The finite floats of magnitude at most MaxTime.
FloatValues == {v \in (0 - MaxTime)..MaxTime : Fl(v) = v}

\* (a variant that leaves the gap out)
OffsetWithoutGap(end_time, start_time, gap) == FSub(end_time, start_time)

\* return (end_time - start_time) + gap
ConcatOffset(end_time, start_time, gap) == FAdd(FSub(end_time, start_time), gap)

\* (a variant that always subtracts the reference)
SubtractReference(time_data, reference_start) ==
    [i \in DOMAIN time_data |-> FSub(time_data[i], reference_start)]

\* TimeAligner.compute_relative_time(time_data, reference_start)
ComputeRelativeTime(time_data, reference_start) ==
    IF Len(time_data) = 0 THEN time_data
    ELSE LET start == IF reference_start # 0 THEN reference_start ELSE time_data[1]
         IN  [i \in DOMAIN time_data |-> FSub(time_data[i], start)]

InitAlign ==
    /\ call \in [done : {TRUE}, kind : {"offset"}, end_time : FloatValues,
                 start_time : FloatValues, gap : FloatValues]
          \cup  [done : {TRUE}, kind : {"relative"},
                 time_data : UNION {[1..n -> FloatValues] : n \in 0..MaxSamples},
                 reference_start : {0, 2}]
    /\ ret = Idle
    /\ files = <<>> /\ tests = [t \in TestIds |-> NewTest] /\ last = NoDialog
    /\ diff_in = Idle /\ diff_out = Idle /\ tfile = Idle /\ time_out = Idle
    /\ mtest = Idle /\ merged = Idle /\ fm = Idle /\ plot_container = Idle

\* TimeAligner.compute_concatenate_offset(test_a, test_b, gap): end_time is the maximum of
\* test_a.get_time_range(), start_time the minimum of test_b.get_time_range().
compute_concatenate_offset ==
    /\ ret = Idle /\ call.kind = "offset"
    /\ ret' = [done |-> TRUE, op |-> "compute_concatenate_offset",
               value |-> ConcatOffset(call.end_time, call.start_time, call.gap)]
    /\ UNCHANGED <<files, tests, last, diff_in, diff_out, tfile, time_out, mtest, merged, call, fm, plot_container>>

compute_time_offset_for_concat ==
    /\ ret = Idle /\ call.kind = "offset"
    /\ ret' = [done |-> TRUE, op |-> "compute_time_offset_for_concat",
               value |-> ConcatOffset(call.end_time, call.start_time, call.gap)]
    /\ UNCHANGED <<files, tests, last, diff_in, diff_out, tfile, time_out, mtest, merged, call, fm, plot_container>>

compute_relative_time ==
    /\ ret = Idle /\ call.kind = "relative"
    /\ ret' = [done |-> TRUE, op |-> "compute_relative_time",
               value |-> ComputeRelativeTime(call.time_data, call.reference_start)]
    /\ UNCHANGED <<files, tests, last, diff_in, diff_out, tfile, time_out, mtest, merged, call, fm, plot_container>>

NextAlign ==
    compute_concatenate_offset \/ compute_time_offset_for_concat \/ compute_relative_time

SpecAlign == InitAlign /\ [][NextAlign]_vars

(***************************************************************************)
(* SpecDict: to_dict and from_dict of ChannelMetadata, DataFile,           *)
(* FilterState and Test.  An Enum member is a record of its class and      *)
(* name, a Path a record of its parts, an Optional float Unset or a Bound. *)
(***************************************************************************)
Member(cls, name) == [cls |-> cls, name |-> name]
NoMember == [cls |-> "NoneType", name |-> None]
TimeModes == {Member("TimeMode", n) : n \in TimeMode}
JoinStrategies == {Member("JoinStrategy", n) : n \in JoinStrategy}

\* TimeMode[name], JoinStrategy[name]
Lookup(cls, name) == Member(cls, name)

\* Path(...) of a string, str(...) and .name of a Path
PathOf(str) ==
    CASE str = "." -> [parts |-> <<>>]
      [] str = "" -> [parts |-> <<>>]
      [] str = "a.csv" -> [parts |-> <<"a.csv">>]
      [] str = "d/a.csv" -> [parts |-> <<"d", "a.csv">>]
PathStr(path) ==
    CASE path.parts = <<>> -> "."
      [] path.parts = <<"a.csv">> -> "a.csv"
      [] path.parts = <<"d", "a.csv">> -> "d/a.csv"
PathName(path) == IF path.parts = <<>> THEN "" ELSE path.parts[Len(path.parts)]

\* ChannelMetadata.to_dict and from_dict
ChannelToDict(meta) ==
    [original_name |-> meta.original_name, display_name |-> meta.display_name,
     unit |-> meta.unit, category |-> meta.category, description |-> meta.description]
ChannelFromDict(data) ==
    [original_name |-> data.original_name, display_name |-> data.display_name,
     unit |-> data.unit, category |-> data.category, description |-> data.description]

\* DataFile.__post_init__: the filename defaults to the name of the path.
PostInit(df) == IF df.filename = "" THEN [df EXCEPT !.filename = PathName(df.filepath)] ELSE df

\* DataFile.to_dict
DataFileToDict(df) ==
    [id |-> df.id, filepath |-> PathStr(df.filepath), filename |-> df.filename,
     delimiter |-> df.delimiter, encoding |-> df.encoding, headers |-> df.headers,
     channel_metadata |-> [k \in DOMAIN df.channel_metadata |-> ChannelToDict(df.channel_metadata[k])],
     time_column |-> df.time_column, time_mode |-> df.time_mode.name,
     time_offset |-> df.time_offset, time_scale |-> df.time_scale,
     join_strategy |-> IF df.join_strategy # NoMember THEN df.join_strategy.name ELSE None,
     join_key |-> df.join_key, join_tolerance |-> df.join_tolerance]

\* (a variant that restores no join strategy)
NoStrategyFromDict(data) == NoMember

\* JoinStrategy[data["join_strategy"]] if data.get("join_strategy") else None
StrategyFromDict(data) ==
    IF data.join_strategy # None /\ data.join_strategy # ""
    THEN Lookup("JoinStrategy", data.join_strategy) ELSE NoMember

\* DataFile.from_dict; the table is not restored.
DataFileFromDict(data) ==
    PostInit([id |-> data.id, filepath |-> PathOf(data.filepath), filename |-> data.filename,
              delimiter |-> data.delimiter, encoding |-> data.encoding, headers |-> data.headers,
              channel_metadata |->
                  [k \in DOMAIN data.channel_metadata |-> ChannelFromDict(data.channel_metadata[k])],
              loaded |-> FALSE,
              time_column |-> data.time_column,
              time_mode |-> Lookup("TimeMode", data.time_mode),
              time_offset |-> data.time_offset, time_scale |-> data.time_scale,
              join_strategy |-> StrategyFromDict(data),
              join_key |-> data.join_key, join_tolerance |-> data.join_tolerance])

\* FilterState.to_dict and from_dict
FilterStateToDict(fs) ==
    [time_min |-> fs.time_min, time_max |-> fs.time_max, channel_filters |-> fs.channel_filters,
     text_search |-> fs.text_search, category_filter |-> fs.category_filter,
     unit_filter |-> fs.unit_filter, enabled |-> fs.enabled]
FilterStateFromDict(data) ==
    [time_min |-> data.time_min, time_max |-> data.time_max,
     channel_filters |-> data.channel_filters, text_search |-> data.text_search,
     category_filter |-> data.category_filter, unit_filter |-> data.unit_filter,
     enabled |-> data.enabled]

\* Test.to_dict
TestToDict(test) ==
    [id |-> test.id, name |-> test.name, description |-> test.description,
     data_files |-> [i \in DOMAIN test.data_files |-> DataFileToDict(test.data_files[i])],
     canonical_headers |-> test.canonical_headers,
     canonical_metadata |->
         [k \in DOMAIN test.canonical_metadata |-> ChannelToDict(test.canonical_metadata[k])],
     primary_time_column |-> test.primary_time_column,
     filter_state |-> FilterStateToDict(test.filter_state),
     compare_time_offset |-> test.compare_time_offset, color |-> test.color]

\* Test.from_dict
TestFromDict(data) ==
    [id |-> data.id, name |-> data.name, description |-> data.description,
     data_files |-> [i \in DOMAIN data.data_files |-> DataFileFromDict(data.data_files[i])],
     canonical_headers |-> data.canonical_headers,
     canonical_metadata |->
         [k \in DOMAIN data.canonical_metadata |-> ChannelFromDict(data.canonical_metadata[k])],
     primary_time_column |-> data.primary_time_column,
     filter_state |-> FilterStateFromDict(data.filter_state),
     compare_time_offset |-> data.compare_time_offset, color |-> data.color]

\* The channel metadata maps of the drawn objects: none, or one entry for A.
MetadataMaps ==
    {[k \in {} |-> 0]}
        \cup {[k \in {"A"} |-> [original_name |-> "A", display_name |-> d, unit |-> "V",
                                category |-> "Unknown", description |-> ""]] : d \in {"A", "ab"}}

\* DataFiles as the constructor leaves them, with or without a loaded table.
DictFiles ==
    {PostInit([id |-> "f1", filepath |-> PathOf(p), filename |-> fname, delimiter |-> ",",
               encoding |-> "utf-8", headers |-> h, channel_metadata |-> cm, loaded |-> l,
               time_column |-> tc, time_mode |-> tm, time_offset |-> j[4], time_scale |-> 1,
               join_strategy |-> j[1], join_key |-> j[2], join_tolerance |-> j[3]]) :
        p \in {".", "a.csv", "d/a.csv"}, fname \in {"", "x"},
        h \in {<<>>, <<"Time", "A">>}, cm \in MetadataMaps, l \in BOOLEAN,
        tc \in {"", "Time"}, tm \in TimeModes,
        j \in {<<NoMember, None, 0, 0>>, <<NoMember, None, 1, 2>>}
                 \cup {<<m, k, 0, 0>> : m \in JoinStrategies, k \in {None, "K"}}}

\* The DataFiles of the drawn Tests.
DictMembers ==
    {d \in DictFiles : /\ d.filepath = PathOf("d/a.csv") /\ d.headers # <<>> /\ d.time_column = "Time"
                       /\ d.channel_metadata \in {cm \in MetadataMaps : \A k \in DOMAIN cm : cm[k].display_name = "ab"}
                       /\ d.time_mode.name = "ABSOLUTE" /\ d.filename = "x" /\ d.loaded
                       /\ d.join_key = None /\ d.join_strategy.name \in {None, "TIME_NEAREST"}}

DictFilterStates ==
    [time_min : {Unset, Bound(0), Bound(1)}, time_max : {Unset, Bound(2)},
     channel_filters : {[k \in {} |-> 0], [k \in {"A"} |-> <<Unset, Bound(1)>>]},
     text_search : {"", "ab"}, category_filter : {<<>>, <<"Temperature">>},
     unit_filter : {<<>>, <<"V">>}, enabled : BOOLEAN]

DictTests ==
    [id : {"t1"}, name : {"New Test", "T"}, description : {""},
     data_files : UNION {[1..n -> DictMembers] : n \in 0..MaxMembers},
     canonical_headers : {<<>>, <<"Time", "A">>}, canonical_metadata : MetadataMaps,
     primary_time_column : {"", "Time"},
     filter_state : {fs \in DictFilterStates : fs.enabled /\ fs.unit_filter = <<>> /\ fs.time_max = Unset
                                               /\ fs.category_filter = <<>> /\ fs.time_min # Bound(1)
                                               /\ fs.text_search = ""},
     compare_time_offset : {0, 2}, color : {"#1f77b4"}]

InitDict ==
    /\ call \in [done : {TRUE}, kind : {"DataFile"}, object : DictFiles]
          \cup  [done : {TRUE}, kind : {"FilterState"}, object : DictFilterStates]
          \cup  [done : {TRUE}, kind : {"Test"}, object : DictTests]
    /\ ret = Idle
    /\ files = <<>> /\ tests = [t \in TestIds |-> NewTest] /\ last = NoDialog
    /\ diff_in = Idle /\ diff_out = Idle /\ tfile = Idle /\ time_out = Idle
    /\ mtest = Idle /\ merged = Idle /\ fm = Idle /\ plot_container = Idle

\* DataFile.from_dict(d.to_dict())
datafile_round_trip ==
    /\ ret = Idle /\ call.kind = "DataFile"
    /\ ret' = [done |-> TRUE, op |-> "DataFile",
               data |-> DataFileToDict(call.object),
               value |-> DataFileFromDict(DataFileToDict(call.object))]
    /\ UNCHANGED <<files, tests, last, diff_in, diff_out, tfile, time_out, mtest, merged, call, fm, plot_container>>

\* FilterState.from_dict(f.to_dict())
filterstate_round_trip ==
    /\ ret = Idle /\ call.kind = "FilterState"
    /\ ret' = [done |-> TRUE, op |-> "FilterState",
               data |-> FilterStateToDict(call.object),
               value |-> FilterStateFromDict(FilterStateToDict(call.object))]
    /\ UNCHANGED <<files, tests, last, diff_in, diff_out, tfile, time_out, mtest, merged, call, fm, plot_container>>

\* Test.from_dict(t.to_dict())
test_round_trip ==
    /\ ret = Idle /\ call.kind = "Test"
    /\ ret' = [done |-> TRUE, op |-> "Test",
               data |-> TestToDict(call.object),
               value |-> TestFromDict(TestToDict(call.object))]
    /\ UNCHANGED <<files, tests, last, diff_in, diff_out, tfile, time_out, mtest, merged, call, fm, plot_container>>

NextDict == datafile_round_trip \/ filterstate_round_trip \/ test_round_trip

SpecDict == InitDict /\ [][NextDict]_vars

(***************************************************************************)
(* SpecMapping: apply_header_mapping on one DataFile, with its early       *)
(* return and its time column.  The mapping is a dict: a function m and    *)
(* the insertion order of its keys.                                        *)
(***************************************************************************)
\* apply_header_mapping(data_file, column_mapping), lines 350-377.
HeaderMappingApplied(data_file, m, order) ==
    IF ~data_file.loaded THEN data_file
    ELSE [ApplyHeaderMapping(data_file, m, order) EXCEPT
             !.time_column = IF data_file.time_column \in MappingKeys(m)
                             THEN m[data_file.time_column] ELSE data_file.time_column]

\* A file as FileReader leaves it, its time column detected or not, or a file of a layout
\* whose table is not loaded.
MappingFiles ==
    {[headers |-> ReadFile(hs).headers, channel_metadata |-> ReadFile(hs).channel_metadata,
      join_strategy |-> None, loaded |-> l, time_column |-> tc] :
        hs \in {<<"Time", "A">>, <<"Time", "A", "B">>, <<"B", "Time">>},
        l \in BOOLEAN, tc \in {"Time", "A", ""}}

InitMapping ==
    /\ call \in {[done |-> TRUE, data_file |-> f, column_mapping |-> m, order |-> o] :
                    f \in MappingFiles,
                    m \in [HeaderNames -> HeaderNames \cup {None}],
                    o \in UNION {SetOrders(K) : K \in SUBSET HeaderNames}}
    /\ Range(call.order) = MappingKeys(call.column_mapping)
    /\ ret = Idle
    /\ files = <<>> /\ tests = [t \in TestIds |-> NewTest] /\ last = NoDialog
    /\ diff_in = Idle /\ diff_out = Idle /\ tfile = Idle /\ time_out = Idle
    /\ mtest = Idle /\ merged = Idle /\ fm = Idle /\ plot_container = Idle

apply_header_mapping ==
    /\ ret = Idle
    /\ ret' = [done |-> TRUE, op |-> "apply_header_mapping",
               data_file |-> HeaderMappingApplied(call.data_file, call.column_mapping, call.order)]
    /\ UNCHANGED <<files, tests, last, diff_in, diff_out, tfile, time_out, mtest, merged, call, fm, plot_container>>

NextMapping == apply_header_mapping

SpecMapping == InitMapping /\ [][NextMapping]_vars

(***************************************************************************)
(* SpecWindow: the main window's list of Tests and its FilterManager's     *)
(* registry under new-test, import-files, delete-test and load-layout.     *)
(* A Test is its id: a created Test takes a fresh uuid, a Test of a layout *)
(* file the id stored in the file.                                         *)
(***************************************************************************)
CreatedIds == [n \in 1..3 |-> CASE n = 1 -> "n1" [] n = 2 -> "n2" [] n = 3 -> "n3"]
LayoutIds == {"s1", "s2"}

\* The Tests of a layout file, with distinct ids.
Layouts ==
    {l \in UNION {[1..n -> LayoutIds] : n \in 0..Cardinality(LayoutIds)} :
        \A i, j \in DOMAIN l : l[i] = l[j] => i = j}

\* FilterManager.register_test and unregister_test on the registry's keys.
Registered(registry, test_id) == registry \cup {test_id}
Unregistered(registry, test_id) == registry \ {test_id}

\* FilterManager.get_test(test_id) is not None
GetTest(registry, test_id) == test_id \in registry

InitWindow ==
    /\ fm = [done |-> TRUE, tests |-> <<>>, registry |-> {}, created |-> 0, discarded |-> {}]
    /\ files = <<>> /\ tests = [t \in TestIds |-> NewTest] /\ last = NoDialog
    /\ diff_in = Idle /\ diff_out = Idle /\ tfile = Idle /\ time_out = Idle
    /\ mtest = Idle /\ merged = Idle /\ call = Idle /\ ret = Idle /\ plot_container = Idle

WindowRest ==
    UNCHANGED <<files, tests, last, diff_in, diff_out, tfile, time_out, mtest, merged, call, ret, plot_container>>

\* MainWindow.on_new_test
on_new_test ==
    /\ fm.created < MaxCreated
    /\ LET test == CreatedIds[fm.created + 1]
       IN  fm' = [fm EXCEPT !.tests = Append(@, test),
                            !.registry = Registered(@, test),
                            !.created = @ + 1]
    /\ WindowRest

\* MainWindow.on_import_files: no file chosen; or a Test is created and kept only if a
\* file was imported into it.
on_import_files(chosen, imported) ==
    /\ fm.created < MaxCreated
    /\ IF ~chosen THEN fm' = fm
       ELSE LET test == CreatedIds[fm.created + 1]
            IN  IF imported
                THEN fm' = [fm EXCEPT !.tests = Append(@, test),
                                      !.registry = Registered(@, test),
                                      !.created = @ + 1]
                ELSE fm' = [fm EXCEPT !.created = @ + 1]
    /\ WindowRest

\* MainWindow.on_delete_item for the id of a Test, the question answered yes or no.
on_delete_item(item_id, yes) ==
    /\ item_id \in Range(fm.tests)
    /\ IF yes
       THEN fm' = [fm EXCEPT !.registry = Unregistered(@, item_id),
                             !.tests = SelectSeq(@, LAMBDA t : t # item_id),
                             !.discarded = @ \cup {item_id}]
       ELSE fm' = fm
    /\ WindowRest

\* MainWindow.on_load_layout: no file chosen or a file that cannot be read; or the list is
\* cleared and the Tests of the layout are appended and registered (a load that fails
\* after some Tests leaves the state of loading a shorter layout).
on_load_layout(chosen, layout) ==
    /\ IF ~chosen THEN fm' = fm
       ELSE fm' = [fm EXCEPT !.tests = layout,
                             !.registry = @ \cup Range(layout),
                             !.discarded = (@ \cup Range(fm.tests)) \ Range(layout)]
    /\ WindowRest

NextWindow ==
    \/ on_new_test
    \/ \E chosen, imported \in BOOLEAN : on_import_files(chosen, imported)
    \/ \E item_id \in Range(CreatedIds) \cup LayoutIds, yes \in BOOLEAN : on_delete_item(item_id, yes)
    \/ \E chosen \in BOOLEAN, layout \in Layouts : on_load_layout(chosen, layout)

SpecWindow == InitWindow /\ [][NextWindow]_vars

(***************************************************************************)
(* SpecPlots: the PlotContainer's lists _plots and _settings.  A plot is   *)
(* its is_primary flag; a PlotSettings object is "new" when add_plot made  *)
(* it and otherwise the name it has in a layout.                           *)
(***************************************************************************)
PlotCounts == (0 - MaxCount)..MaxCount
LayoutSettings == {"s1", "s2"}

\* (a variant without the limit of three panels)
AddPlotUnlimited(pc) ==
    [pc EXCEPT !.plots = Append(@, [is_primary |-> Len(pc.plots) = 0]),
               !.settings = Append(@, "new")]

\* PlotContainer.add_plot
AddPlot(pc) ==
    IF Len(pc.plots) >= 3 THEN pc
    ELSE [pc EXCEPT !.plots = Append(@, [is_primary |-> Len(pc.plots) = 0]),
                    !.settings = Append(@, "new")]

\* PlotContainer.remove_plot: list.pop() on both lists.
RemovePlot(pc) ==
    IF Len(pc.plots) <= 1 THEN pc
    ELSE [pc EXCEPT !.plots = SubSeq(@, 1, Len(@) - 1),
                    !.settings = SubSeq(@, 1, Len(@) - 1)]

\* max(1, min(3, count))
Clamp(count) == IF count < 1 THEN 1 ELSE IF count > 3 THEN 3 ELSE count

\* lines 683-686: the two while loops of set_plot_count, for the clamped count.  A loop
\* whose call changes nothing would not end; TLC would report the unbounded recursion.
RECURSIVE Grow(_, _)
Grow(pc, count) == IF Len(pc.plots) < count THEN Grow(AddPlot(pc), count) ELSE pc
RECURSIVE Shrink(_, _)
Shrink(pc, count) == IF Len(pc.plots) > count THEN Shrink(RemovePlot(pc), count) ELSE pc

\* PlotContainer.set_plot_count(count)
SetPlotCount(pc, count) == Shrink(Grow(pc, Clamp(count)), Clamp(count))

\* PlotContainer.restore_settings(settings_list)
RestoreSettings(pc, settings_list) ==
    [pc EXCEPT !.settings =
        [i \in DOMAIN pc.settings |-> IF i <= Len(settings_list) THEN settings_list[i] ELSE @[i]]]

\* PlotContainer.plot_count
PlotCount(pc) == Len(pc.plots)

\* The lists of a PlotContainer and, as history, the latest call and the lists before it.
Called(pc, op, arg) ==
    [done |-> TRUE, plots |-> pc.plots, settings |-> pc.settings,
     op |-> op, arg |-> arg,
     before |-> [plots |-> plot_container.plots, settings |-> plot_container.settings]]

\* PlotContainer.__init__: both lists empty, then add_plot().
InitPlots ==
    /\ LET empty == [plots |-> <<>>, settings |-> <<>>]
       IN  plot_container = [done |-> TRUE, plots |-> AddPlot(empty).plots,
                             settings |-> AddPlot(empty).settings,
                             op |-> "__init__", arg |-> 0, before |-> empty]
    /\ files = <<>> /\ tests = [t \in TestIds |-> NewTest] /\ last = NoDialog
    /\ diff_in = Idle /\ diff_out = Idle /\ tfile = Idle /\ time_out = Idle
    /\ mtest = Idle /\ merged = Idle /\ call = Idle /\ ret = Idle /\ fm = Idle

PlotsRest ==
    UNCHANGED <<files, tests, last, diff_in, diff_out, tfile, time_out, mtest, merged, call, ret, fm>>

add_plot ==
    /\ plot_container' = Called(AddPlot(plot_container), "add_plot", 0)
    /\ PlotsRest

remove_plot ==
    /\ plot_container' = Called(RemovePlot(plot_container), "remove_plot", 0)
    /\ PlotsRest

set_plot_count(count) ==
    /\ plot_container' = Called(SetPlotCount(plot_container, count), "set_plot_count", count)
    /\ PlotsRest

\* MainWindow.on_add_plot and on_remove_plot call the container below and above the limit.
on_add_plot ==
    /\ plot_container' = Called(IF PlotCount(plot_container) < 3 THEN AddPlot(plot_container)
                                ELSE plot_container, "on_add_plot", 0)
    /\ PlotsRest

on_remove_plot ==
    /\ plot_container' = Called(IF PlotCount(plot_container) > 1 THEN RemovePlot(plot_container)
                                ELSE plot_container, "on_remove_plot", 0)
    /\ PlotsRest

restore_settings(settings_list) ==
    /\ plot_container' = Called(RestoreSettings(plot_container, settings_list), "restore_settings", 0)
    /\ PlotsRest

NextPlots ==
    \/ add_plot
    \/ remove_plot
    \/ \E count \in PlotCounts : set_plot_count(count)
    \/ on_add_plot
    \/ on_remove_plot
    \/ \E settings_list \in UNION {[1..n -> LayoutSettings] : n \in 0..MaxCount} :
           restore_settings(settings_list)

SpecPlots == InitPlots /\ [][NextPlots]_vars

(***************************************************************************)
(* Claims about Tests and DataFiles (Spec).                                *)
(***************************************************************************)
NoDuplicates(s) == \A i, j \in DOMAIN s : i # j => s[i] # s[j]

\* C1: after any sequence of add_data_file and remove_data_file calls, canonical_headers
\* has no duplicates and is, as a set, exactly the union of the headers of the DataFiles
\* currently in data_files (so it is empty once every file has been removed).
C1_CanonicalHeadersAreUnion ==
    \A t \in TestIds :
        /\ NoDuplicates(tests[t].canonical_headers)
        /\ Range(tests[t].canonical_headers) =
               UNION {Range(files[f].headers) : f \in Range(tests[t].data_files)}

\* C1 witness: a Test that had two files with different headers and lost the first one:
\* the metadata of the removed file's column is still there, the column itself is not.
C1_Witness ==
    \E t \in TestIds :
        /\ tests[t].data_files = <<2>>
        /\ tests[t].canonical_metadata["A"] # NoRef
        /\ Len(tests[t].canonical_headers) = Len(files[2].headers)

\* The headers of the files dfs in first-seen order: by file, then by position.
RECURSIVE FirstSeen(_, _)
FirstSeen(dfs, fs) ==
    IF dfs = <<>> THEN <<>>
    ELSE LET before == FirstSeen(SubSeq(dfs, 1, Len(dfs) - 1), fs)
             hs == fs[dfs[Len(dfs)]].headers
             firsts == {i \in DOMAIN hs : /\ hs[i] \notin Range(before)
                                          /\ \A j \in 1..(i - 1) : hs[j] # hs[i]}
         IN  before \o SelectSeq(hs, LAMBDA h : h \notin Range(before) /\
                                   \E i \in firsts : hs[i] = h)

\* C2: canonical_headers preserves first-seen order: when a file is added to a Test whose
\* canonical_headers are in first-seen order of its files (an empty Test to begin with),
\* they are in first-seen order of its files afterwards, the same on every run.
C2_FirstSeenOrder ==
    [][\A t \in TestIds :
          (/\ \E f \in 1..MaxFiles : tests'[t].data_files = Append(tests[t].data_files, f)
           /\ tests[t].canonical_headers = FirstSeen(tests[t].data_files, files))
          => tests'[t].canonical_headers = FirstSeen(tests'[t].data_files, files')]_vars

\* How often file f occurs in the data_files lists of all Tests together.
Occurrences(f) ==
    Cardinality({<<t, i>> \in TestIds \X (1..MaxMembers) :
                    i \in DOMAIN tests[t].data_files /\ tests[t].data_files[i] = f})

\* C3: every DataFile is a member of the data_files list of at most one Test, and occurs
\* at most once in that list.
C3_ExclusiveOwnership == \A f \in Created : Occurrences(f) <= 1

\* C4: when the header-mismatch dialog is resolved with STRICT, the file is not added:
\* the Test's data_files, canonical_headers and canonical_metadata stay what they were.
C4_StrictRejects ==
    [][\A t \in TestIds :
          (last'.test = t /\ last'.result = "Accepted" /\ last'.strategy = "STRICT")
          => tests'[t] = tests[t]]_vars

(***************************************************************************)
(* Claims about compute_header_diff (SpecDiff).                            *)
(***************************************************************************)
StrictlyAscending(s) == \A i \in 1..(Len(s) - 1) : StrLess(CharsOf(s[i]), CharsOf(s[i + 1]))

\* C5: compute_header_diff(C, F) returns matched = set(C) /\ set(F), missing = set(C) -
\* set(F), extra = set(F) - set(C), each a duplicate-free lexicographically sorted list,
\* pairwise disjoint, matched + missing = set(C), matched + extra = set(F), and
\* has_differences is true iff set(C) # set(F).
C5_ExactSets ==
    diff_out.done =>
        LET C == Range(diff_in.test_headers)
            F == Range(diff_in.file_headers)
            matched == Range(diff_out.matched)
            missing == Range(diff_out.missing)
            extra == Range(diff_out.extra)
        IN  /\ matched = C \cap F /\ missing = C \ F /\ extra = F \ C
            /\ StrictlyAscending(diff_out.matched)
            /\ StrictlyAscending(diff_out.missing)
            /\ StrictlyAscending(diff_out.extra)
            /\ matched \cap missing = {} /\ matched \cap extra = {} /\ missing \cap extra = {}
            /\ matched \cup missing = C /\ matched \cup extra = F
            /\ diff_out.has_differences <=> (C # F)

\* C5 witness: a diff with a matched, a missing and an extra header.
C5_Witness ==
    /\ diff_out.done
    /\ diff_out.matched # <<>> /\ diff_out.missing # <<>> /\ diff_out.extra # <<>>

\* C6: every key of fuzzy_matches is an extra header mapped to one missing header, which
\* has the highest score to the key among all missing headers, a score >= fuzzy_threshold.
C6_FuzzyBest ==
    diff_out.done =>
        \A e \in DiffNames :
            diff_out.fuzzy_matches[e] # None =>
                /\ e \in Range(diff_out.extra)
                /\ diff_out.fuzzy_matches[e] \in Range(diff_out.missing)
                /\ \A m \in Range(diff_out.missing) :
                       ~ScoreGreater(Score(e, m), Score(e, diff_out.fuzzy_matches[e]))
                /\ ScoreAtLeast(Score(e, diff_out.fuzzy_matches[e]), diff_in.fuzzy_threshold)

\* C6 witness: two extra headers are mapped to the same one of two missing headers.
C6_Witness ==
    /\ diff_out.done
    /\ Len(diff_out.missing) = 2
    /\ \E e1, e2 \in DiffNames :
           /\ e1 # e2
           /\ diff_out.fuzzy_matches[e1] # None
           /\ diff_out.fuzzy_matches[e1] = diff_out.fuzzy_matches[e2]

\* The best score of an extra header against the missing headers is exactly n.
BestScoreIs(e, n) ==
    /\ \E m \in Range(diff_out.missing) : Score(e, m).num = n * Score(e, m).den
    /\ \A m \in Range(diff_out.missing) : Score(e, m).num <= n * Score(e, m).den

\* C7: for every threshold in 0..100 an extra header whose best score equals
\* fuzzy_threshold gets a suggestion, and one whose best score is one point below gets none.
C7_ThresholdInclusive ==
    diff_out.done =>
        \A e \in Range(diff_out.extra) :
            /\ BestScoreIs(e, diff_in.fuzzy_threshold) => diff_out.fuzzy_matches[e] # None
            /\ BestScoreIs(e, diff_in.fuzzy_threshold - 1) => diff_out.fuzzy_matches[e] = None

(***************************************************************************)
(* Claims about DataFile.get_time_data (SpecTime).                         *)
(***************************************************************************)
\* C8: for a DataFile with loaded data and a present time column every transformed time
\* value is (m(raw_i) + time_offset) * time_scale, where m subtracts the first raw sample
\* in RELATIVE mode and is the identity in the other modes; with ABSOLUTE, offset 0 and
\* scale 1 the values are unchanged.
C8_OffsetThenScale ==
    (time_out.done /\ tfile.loaded /\ tfile.has_time_column) =>
        /\ ~time_out.is_none
        /\ Len(time_out.data) = Len(tfile.raw)
        /\ \A i \in DOMAIN tfile.raw :
               time_out.data[i] =
                   ((IF tfile.time_mode = "RELATIVE" THEN tfile.raw[i] - tfile.raw[1] ELSE tfile.raw[i])
                    + tfile.time_offset) * tfile.time_scale
        /\ (tfile.time_mode = "ABSOLUTE" /\ tfile.time_offset = 0 /\ tfile.time_scale = 1)
               => time_out.data = tfile.raw

\* C8 witness: a RELATIVE file whose first sample is not its least, with an offset and a scale.
C8_Witness ==
    /\ time_out.done /\ ~time_out.is_none
    /\ tfile.time_mode = "RELATIVE" /\ tfile.time_offset = 2 /\ tfile.time_scale = 3
    /\ tfile.raw = <<2, 1>>
    /\ time_out.data = <<6, 3>>

(***************************************************************************)
(* Claims about Test.get_merged_dataframe (SpecMerge).                     *)
(***************************************************************************)
LoadedFiles == {i \in DOMAIN mtest.data_files : mtest.data_files[i].loaded}

\* C9: for a Test whose loaded files all carry the time column, whatever their join
\* strategies and however their times are ordered, get_merged_dataframe returns a table
\* whose rows are in ascending _plot_time_ order.
C9_AscendingPlotTime ==
    (merged.done /\ LoadedFiles # {}
        /\ \A i \in LoadedFiles : "Time" \in Range(mtest.data_files[i].columns)) =>
        /\ ~merged.raised
        /\ PlotTimeCol \in Range(merged.cols)
        /\ \A i, j \in DOMAIN merged.rows :
               i < j => /\ merged.rows[i][PlotTimeCol] # NaN
                        /\ merged.rows[j][PlotTimeCol] # NaN
                        /\ merged.rows[i][PlotTimeCol] <= merged.rows[j][PlotTimeCol]

\* C10: a file with join_strategy ALTERNATIVE_KEY and join_key k is combined with the
\* accumulated result by an outer join on column k, the incoming duplicate non-key columns
\* dropped (here without a filter: the rows of the table are those of that join).
C10_AlternativeKeyJoin ==
    (merged.done /\ ~merged.apply_filter /\ Len(mtest.data_files) = 2
        /\ mtest.data_files[2].loaded
        /\ mtest.data_files[2].time_column = "Time"
        /\ mtest.data_files[2].join_strategy = "ALTERNATIVE_KEY") =>
        LET time_col == mtest.data_files[1].time_column
            joined == MergeOnAlternativeKey(TempFrame(mtest.data_files[1], time_col),
                                            TempFrame(mtest.data_files[2], time_col),
                                            mtest.data_files[2].join_key)
        IN  /\ ~merged.raised
            /\ Range(merged.cols) = Range(joined.cols)
            /\ Range(merged.rows) = Range(joined.rows)

\* C11: when a file with join_strategy TIME_NEAREST is folded in, every column that both
\* the accumulated result and the file have, _plot_time_ aside, is in the merged table
\* exactly once, under its own name and with the base side's values.
C11_NearestDropsDuplicates ==
    (merged.done /\ ~merged.apply_filter /\ Len(mtest.data_files) = 2
        /\ mtest.data_files[2].loaded
        /\ mtest.data_files[2].time_column = "Time"
        /\ mtest.data_files[2].join_strategy = "TIME_NEAREST") =>
        LET base == TempFrame(mtest.data_files[1], mtest.data_files[1].time_column)
            shared == (Range(mtest.data_files[1].columns) \cap Range(mtest.data_files[2].columns))
        IN  /\ ~merged.raised
            /\ \A c \in shared :
                   /\ Cardinality({i \in DOMAIN merged.cols : merged.cols[i] = c}) = 1
                   /\ \A i \in DOMAIN merged.rows : \E b \in DOMAIN base.rows :
                          /\ base.rows[b][PlotTimeCol] = merged.rows[i][PlotTimeCol]
                          /\ base.rows[b][c] = merged.rows[i][c]

\* C12: if the second file of a Test lacks the time column of the merge,
\* get_merged_dataframe does not raise, whatever the join strategy, and the rows of the
\* first file are all still in the table.
C12_MissingTimeColumnIsLocal ==
    (merged.done /\ ~merged.apply_filter /\ Len(mtest.data_files) = 2
        /\ mtest.data_files[2].loaded
        /\ "Time" \notin Range(mtest.data_files[2].columns)) =>
        /\ ~merged.raised
        /\ \A b \in DOMAIN mtest.data_files[1].raw : \E i \in DOMAIN merged.rows :
               merged.rows[i]["A"] = Cell("A", b, mtest.data_files[1].raw)

(***************************************************************************)
(* Claims about the DataMerger functions (SpecMerger).                     *)
(***************************************************************************)
AscendingBy(rows, c) ==
    \A i, j \in DOMAIN rows : i < j => rows[i][c] # NaN /\ rows[j][c] # NaN /\ rows[i][c] <= rows[j][c]

Once(cols, c) == Cardinality({i \in DOMAIN cols : cols[i] = c}) = 1

\* C13: merge_on_time_exact(base, new, t) drops no row of either input (every time value
\* of base[t] or new[t] is in the result), gives the rows in ascending order of t, and has
\* the column A of both inputs once, with the base side's values.
C13_TimeExact ==
    (ret.done /\ ret.op = "merge_on_time_exact") =>
        LET base == call.base_raw
            new == call.new_raw
        IN  /\ {ret.rows[i]["Time"] : i \in DOMAIN ret.rows} = Range(base) \cup Range(new)
            /\ AscendingBy(ret.rows, "Time")
            /\ Once(ret.cols, "A") /\ Once(ret.cols, "Time") /\ Once(ret.cols, "B")
            /\ Len(ret.cols) = 3
            /\ \A b \in DOMAIN base : \E i \in DOMAIN ret.rows :
                   ret.rows[i]["A"] = 10 + b /\ ret.rows[i]["Time"] = base[b]
            /\ \A n \in DOMAIN new : \E i \in DOMAIN ret.rows :
                   ret.rows[i]["B"] = 20 + n /\ ret.rows[i]["Time"] = new[n]
            /\ \A i \in DOMAIN ret.rows :
                   \/ \E b \in DOMAIN base : ret.rows[i]["A"] = 10 + b /\ ret.rows[i]["Time"] = base[b]
                   \/ ret.rows[i]["A"] = NaN /\ ret.rows[i]["Time"] \notin Range(base)

\* C13 witness: a time of both tables, a time of the base only and a time of the new only.
C13_Witness ==
    /\ ret.done /\ ret.op = "merge_on_time_exact"
    /\ call.base_raw = <<2, 1>> /\ call.new_raw = <<4, 2>>
    /\ Len(ret.rows) = 3

Distance(a, b) == IF a >= b THEN a - b ELSE b - a

C15_AppendSegment ==
    (ret.done /\ ret.op = "append_as_segment") =>
        LET base == call.base_raw
            new == call.new_raw
        IN  /\ Len(ret.rows) = Len(base) + Len(new)
            /\ \A b \in DOMAIN base :
                   Cardinality({i \in DOMAIN ret.rows :
                                   ret.rows[i]["A"] = 10 + b /\ ret.rows[i]["Time"] = base[b]}) = 1
            /\ \A n \in DOMAIN new :
                   Cardinality({i \in DOMAIN ret.rows :
                                   ret.rows[i]["A"] = 30 + n /\ ret.rows[i]["Time"] = new[n] + ret.arg}) = 1
            /\ AscendingBy(ret.rows, "Time")

\* C15 witness: rows of equal time are both kept, and the shifted rows come last.
C15_Witness ==
    /\ ret.done /\ ret.op = "append_as_segment" /\ ret.arg = 3
    /\ call.base_raw = <<4, 1>> /\ call.new_raw = <<1, 1>>
    /\ Len(ret.rows) = 4
    /\ ret.rows[2]["Time"] = 4 /\ ret.rows[3]["Time"] = 4

(***************************************************************************)
(* Claims about FilterState.apply_to_dataframe (SpecApply).                *)
(***************************************************************************)
\* C16: apply_to_dataframe returns the table unchanged if enabled is False or the table is
\* empty; otherwise exactly the rows, in their order, with time >= time_min if set, time <=
\* time_max if set and, for every channel filter on a column of the table, value >= min if
\* set and value <= max if set.  A filter on an absent column removes no row.
C16_FilterRows ==
    (ret.done /\ ret.op = "apply_to_dataframe") =>
        LET fs == call.filter_state
            df == call.df
            has(c) == c \in Range(df.cols)
            inside(x, lo, hi) ==
                /\ lo.set => (x # NaN /\ x >= lo.value)
                /\ hi.set => (x # NaN /\ x <= hi.value)
            passes(r) ==
                /\ has("Time") => inside(r["Time"], fs.time_min, fs.time_max)
                /\ \A ch \in DOMAIN fs.channel_filters :
                       has(ch) => inside(r[ch], fs.channel_filters[ch][1], fs.channel_filters[ch][2])
        IN  /\ ret.cols = df.cols
            /\ (~fs.enabled \/ df.rows = <<>>) => ret.rows = df.rows
            /\ (fs.enabled /\ df.rows # <<>>) => ret.rows = SelectSeq(df.rows, passes)
            /\ (fs.enabled /\ ~fs.time_min.set /\ ~fs.time_max.set
                    /\ DOMAIN fs.channel_filters \cap Range(df.cols) = {}) => ret.rows = df.rows

\* C16 witness: the time bound removes a row; a row exactly at both bounds stays.
C16_Witness ==
    /\ ret.done /\ ret.op = "apply_to_dataframe"
    /\ call.filter_state.enabled
    /\ call.filter_state.time_min = Bound(2)
    /\ call.filter_state.channel_filters = [ch \in {"A"} |-> <<Bound(2), Unset>>]
    /\ Len(call.df.rows) = 2 /\ Len(ret.rows) = 1
    /\ call.df.rows[1] = [Time |-> 1, A |-> 2]
    /\ ret.rows[1] = [Time |-> 2, A |-> 2]

(***************************************************************************)
(* Claims about the FilterManager (SpecFilter).                            *)
(***************************************************************************)
Mutators ==
    {"set_time_range", "set_channel_filter", "set_text_search", "set_category_filter",
     "set_unit_filter", "set_filter_enabled", "clear_filters"}

Times(l, s) == Cardinality({i \in DOMAIN s : s[i] = l})

\* C17: a mutator called with a registered test id invokes each entry of the listener
\* list exactly once, with that test id, after the filter_state has been updated; a
\* listener removed by remove_listener is not invoked by later mutations.
C17_ListenersNotified ==
    (fm.done /\ fm.last.op \in Mutators /\ fm.registered[fm.last.test_id]) =>
        /\ \A l \in ListenerIds : Times(l, fm.last.notified) = Times(l, fm.listeners)
        /\ fm.last.seen = fm.filter_state[fm.last.test_id]
        /\ \A l \in fm.removed : l \notin Range(fm.last.notified)

(***************************************************************************)
(* Claims about FilterManager.get_filtered_channels (SpecChannels).        *)
(***************************************************************************)
\* C18: for a registered Test get_filtered_channels returns, in the order of all_channels,
\* exactly the channels for which (1) text_search is empty or a case-insensitive substring
\* of the header or of its display name, (2) category_filter is empty or holds the
\* channel's category, (3) unit_filter is empty or holds the channel's unit.
C18_FilteredChannels ==
    (ret.done /\ ret.op = "get_filtered_channels" /\ call.registered) =>
        LET meta(ch) == call.canonical_metadata[ch]
            passes(ch) ==
                /\ \/ call.text_search = ""
                   \/ TextIn(call.text_search, ch)
                   \/ meta(ch).present /\ TextIn(call.text_search, meta(ch).display_name)
                /\ \/ call.category_filter = <<>>
                   \/ meta(ch).present /\ meta(ch).category \in Range(call.category_filter)
                /\ \/ call.unit_filter = <<>>
                   \/ meta(ch).present /\ meta(ch).unit \in Range(call.unit_filter)
        IN  ret.value = SelectSeq(call.all_channels, passes)

(***************************************************************************)
(* Claims about TestComparer (SpecCompare).                                *)
(***************************************************************************)
\* The positions of the Tests that have an entry in the prepared result.
PresentAt(value) == {i \in DOMAIN value : value[i].present}

\* The prepared (merged, filtered) table of the Test at a position of the call's list.
OwnTable(i) == GetMergedDataFrame(call.tests[i], TRUE, FALSE)

\* C19: in CONCATENATE mode prepare_tests_for_comparison leaves the first non-empty Test's
\* _plot_time_ unchanged, and the smallest shifted _plot_time_ of every later non-empty Test
\* equals the largest shifted _plot_time_ of the previous non-empty Test plus gap, so that
\* consecutive Tests are separated by exactly gap whatever time their own series start at.
C19_ConcatenateShift ==
    (ret.done /\ ret.op = "prepare_tests_for_comparison" /\ call.mode = "CONCATENATE") =>
        \A i \in PresentAt(ret.value) :
            LET earlier == {j \in PresentAt(ret.value) : j < i}
            IN  IF earlier = {}
                THEN PlotTimes(ret.value[i]) = PlotTimes(OwnTable(i))
                ELSE LET prev == CHOOSE j \in earlier : \A k \in earlier : k <= j
                     IN  SeqMin(PlotTimes(ret.value[i]))
                             = SeqMax(PlotTimes(ret.value[prev])) + call.gap

\* A list without its element at position k.
Without(list, k) == SubSeq(list, 1, k - 1) \o SubSeq(list, k + 1, Len(list))

\* C20: in CONCATENATE mode a Test whose prepared table is empty has no entry in the result
\* of prepare_tests_for_comparison, and its presence at any position of a list of other
\* Tests changes neither their shifted times nor the value of get_combined_time_range.
C20_EmptyTestSkipped ==
    (ret.done /\ call.mode = "CONCATENATE") =>
        \A k \in DOMAIN call.tests :
            (Empty(OwnTable(k)) /\ Len(call.tests) > 1) =>
                LET others == Without(call.tests, k)
                IN  /\ ret.op = "prepare_tests_for_comparison" =>
                        /\ ~ret.value[k].present
                        /\ Without(ret.value, k)
                               = PrepareTestsForComparison(call.mode, call.gap, others,
                                                           call.selected_channels)
                    /\ ret.op = "get_combined_time_range" =>
                        ret.value = GetCombinedTimeRange(call.mode, call.gap, others)

\* The tables prepare_tests_for_comparison returns for the Tests and gap of the call.
PreparedForCall ==
    PrepareTestsForComparison(call.mode, call.gap, call.tests, call.selected_channels)

\* C21: in CONCATENATE mode get_combined_time_range returns (0, E), E the largest shifted
\* _plot_time_ over the tables prepare_tests_for_comparison returns for the same Tests and gap.
C21_CombinedRangeIsLayoutEnd ==
    (ret.done /\ ret.op = "get_combined_time_range" /\ call.mode = "CONCATENATE"
        /\ PresentAt(PreparedForCall) # {}) =>
        LET ends == {SeqMax(PlotTimes(PreparedForCall[i])) : i \in PresentAt(PreparedForCall)}
        IN  ret.value = <<0, CHOOSE m \in ends : \A n \in ends : n <= m>>

\* C22: in OVERLAY mode prepare_tests_for_comparison returns, for each Test whose merged
\* (filtered) table is not empty, that table's _plot_time_ values unmodified together with
\* only the requested channels that exist in it; get_combined_time_range returns the
\* smallest of the Tests' range minima and the largest of their range maxima, and (0, 1)
\* for an empty list of Tests.
C22_Overlay ==
    (ret.done /\ call.mode = "OVERLAY") =>
        /\ ret.op = "prepare_tests_for_comparison" =>
              /\ DOMAIN ret.value = DOMAIN call.tests
              /\ \A i \in DOMAIN call.tests :
                    /\ ret.value[i].present <=> ~Empty(OwnTable(i))
                    /\ ret.value[i].present =>
                          /\ PlotTimes(ret.value[i]) = PlotTimes(OwnTable(i))
                          /\ Range(ret.value[i].cols) \ {PlotTimeCol}
                                 = Range(call.selected_channels) \cap Range(OwnTable(i).cols)
                          /\ \A r \in DOMAIN ret.value[i].rows :
                                \A c \in Range(ret.value[i].cols) :
                                    ret.value[i].rows[r][c] = OwnTable(i).rows[r][c]
        /\ ret.op = "get_combined_time_range" =>
              IF call.tests = <<>> THEN ret.value = <<0, 1>>
              ELSE LET minima == {TestTimeRange(call.tests[i])[1] : i \in DOMAIN call.tests}
                       maxima == {TestTimeRange(call.tests[i])[2] : i \in DOMAIN call.tests}
                   IN  /\ ret.value[1] \in minima /\ \A m \in minima : ret.value[1] <= m
                       /\ ret.value[2] \in maxima /\ \A m \in maxima : ret.value[2] >= m

\* Two Tests were overlaid: one starting below 0 whose table is kept with the requested
\* channel A alone, and one whose filter leaves no row and that has no entry.
C22_Witness ==
    /\ ret.done /\ call.mode = "OVERLAY" /\ ret.op = "prepare_tests_for_comparison"
    /\ Len(call.tests) = 2
    /\ ret.value[1].present /\ ret.value[1].cols = <<PlotTimeCol, "A">>
    /\ SeqMin(PlotTimes(ret.value[1])) < 0
    /\ ~ret.value[2].present /\ call.tests[2].data_files # <<>>

(***************************************************************************)
(* Claims about the TimeAligner (SpecAlign).                               *)
(***************************************************************************)
OffsetOps == {"compute_concatenate_offset", "compute_time_offset_for_concat"}

\* C23 as stated: both functions return end - start + gap for any finite values, and
\* consequently start + offset = end + gap: test_b shifted by the offset begins exactly
\* gap after test_a ends.
C23_OffsetExact ==
    (ret.done /\ ret.op \in OffsetOps) =>
        /\ ret.value = FAdd(FSub(call.end_time, call.start_time), call.gap)
        /\ FAdd(call.start_time, ret.value) = FAdd(call.end_time, call.gap)

\* C23, amended: both functions return the float (end - start) + gap, each operation
\* rounded; when neither operation rounds, start + offset = end + gap exactly, a negative
\* gap included.
C23_OffsetWhenExact ==
    (ret.done /\ ret.op \in OffsetOps) =>
        /\ ret.value = FAdd(FSub(call.end_time, call.start_time), call.gap)
        /\ (/\ Fl(call.end_time - call.start_time) = call.end_time - call.start_time
            /\ Fl(call.end_time - call.start_time + call.gap)
                   = call.end_time - call.start_time + call.gap) =>
               /\ ret.value = call.end_time - call.start_time + call.gap
               /\ call.start_time + ret.value = call.end_time + call.gap

\* An offset computed without rounding for a negative gap and a later start.
C23_Witness ==
    /\ ret.done /\ ret.op = "compute_concatenate_offset"
    /\ call.gap < 0 /\ call.start_time > call.end_time
    /\ ret.value = call.end_time - call.start_time + call.gap
    /\ Fl(call.end_time - call.start_time) = call.end_time - call.start_time

\* t + c, elementwise in floats.
Shifted(time_data, c) == [i \in DOMAIN time_data |-> FAdd(time_data[i], c)]

\* C24 as stated: for a non-empty array t, compute_relative_time(t) has first element 0
\* and compute_relative_time(t + c) = compute_relative_time(t) for every constant c; an
\* empty array is returned unchanged.
C24_RelativeShiftInvariant ==
    (ret.done /\ ret.op = "compute_relative_time" /\ call.reference_start = 0) =>
        IF call.time_data = <<>> THEN ret.value = call.time_data
        ELSE /\ ret.value[1] = 0
             /\ \A c \in FloatValues :
                    ComputeRelativeTime(Shifted(call.time_data, c), 0) = ret.value

\* C24, amended: for a non-empty array t, compute_relative_time(t) has first element 0 and
\* compute_relative_time(t + c) = compute_relative_time(t) for every constant c whose
\* addition to t rounds no element; an empty array is returned unchanged.
C24_RelativeShiftWhenExact ==
    (ret.done /\ ret.op = "compute_relative_time" /\ call.reference_start = 0) =>
        IF call.time_data = <<>> THEN ret.value = call.time_data
        ELSE /\ ret.value[1] = 0
             /\ \A c \in FloatValues :
                    (\A i \in DOMAIN call.time_data :
                         FAdd(call.time_data[i], c) = call.time_data[i] + c) =>
                        ComputeRelativeTime(Shifted(call.time_data, c), 0) = ret.value

\* A series not starting at 0 was made relative, and some shift of it is exact.
C24_Witness ==
    /\ ret.done /\ ret.op = "compute_relative_time" /\ call.reference_start = 0
    /\ Len(call.time_data) = 2 /\ call.time_data[1] # 0 /\ ret.value[2] # 0
    /\ \E c \in FloatValues \ {0} :
           \A i \in DOMAIN call.time_data : FAdd(call.time_data[i], c) = call.time_data[i] + c

(***************************************************************************)
(* Claims about serialization (SpecDict).                                  *)
(***************************************************************************)
\* The fields of a DataFile that from_dict restores: all but the table.
SameDataFile(a, b) ==
    /\ a.id = b.id /\ a.filepath = b.filepath /\ a.filename = b.filename
    /\ a.delimiter = b.delimiter /\ a.encoding = b.encoding /\ a.headers = b.headers
    /\ a.channel_metadata = b.channel_metadata /\ a.time_column = b.time_column
    /\ a.time_mode = b.time_mode /\ a.time_offset = b.time_offset
    /\ a.time_scale = b.time_scale /\ a.join_strategy = b.join_strategy
    /\ a.join_key = b.join_key /\ a.join_tolerance = b.join_tolerance

\* C25: from_dict(to_dict(x)) has the field values of x for every DataFile, FilterState and
\* Test x (a Test's data_files in order), the raw table alone is not restored, and the
\* dictionary holds the Enums by name.
C25_RoundTrip ==
    ret.done =>
        /\ ret.op = "DataFile" =>
              /\ SameDataFile(ret.value, call.object) /\ ~ret.value.loaded
              /\ ret.data.time_mode = call.object.time_mode.name
              /\ ret.data.join_strategy = call.object.join_strategy.name
        /\ ret.op = "FilterState" => ret.value = call.object
        /\ ret.op = "Test" =>
              /\ Len(ret.value.data_files) = Len(call.object.data_files)
              /\ \A i \in DOMAIN call.object.data_files :
                    /\ SameDataFile(ret.value.data_files[i], call.object.data_files[i])
                    /\ ~ret.value.data_files[i].loaded
              /\ [ret.value EXCEPT !.data_files = <<>>] = [call.object EXCEPT !.data_files = <<>>]

\* A Test of two loaded files, one joined by TIME_NEAREST, with a time filter at 0 and a
\* channel filter, went through to_dict and from_dict.
C25_Witness ==
    /\ ret.done /\ ret.op = "Test" /\ Len(call.object.data_files) = 2
    /\ call.object.data_files[1].loaded
    /\ call.object.data_files[2].join_strategy = Member("JoinStrategy", "TIME_NEAREST")
    /\ ret.value.data_files[2].join_strategy = Member("JoinStrategy", "TIME_NEAREST")
    /\ call.object.filter_state.time_min = Bound(0)
    /\ DOMAIN call.object.filter_state.channel_filters = {"A"}

(***************************************************************************)
(* Claims about apply_header_mapping (SpecMapping).                        *)
(***************************************************************************)
\* C26: for a DataFile with loaded data whose time_column is in headers,
\* apply_header_mapping leaves headers the old headers with every mapped name replaced
\* (positions kept), moves each renamed header's ChannelMetadata object to the new key with
\* original_name the new name while keeping the unmapped entries, and sets time_column to
\* the new name if it was renamed, so that time_column is still in headers; without
\* loaded data the call changes nothing.
C26_HeaderMapping ==
    (ret.done /\ ret.op = "apply_header_mapping") =>
        LET old == call.data_file
            new == ret.data_file
            keys == MappingKeys(call.column_mapping)
            to(name) == call.column_mapping[name]
        IN  IF ~old.loaded THEN new = old
            ELSE old.time_column \in Range(old.headers) =>
                /\ Len(new.headers) = Len(old.headers)
                /\ \A i \in DOMAIN old.headers :
                       new.headers[i] = IF old.headers[i] \in keys THEN to(old.headers[i])
                                        ELSE old.headers[i]
                /\ \A name \in keys :
                       old.channel_metadata[name] # NoMeta =>
                           /\ new.channel_metadata[to(name)].obj = old.channel_metadata[name].obj
                           /\ new.channel_metadata[to(name)].original_name = to(name)
                /\ \A name \in HeaderNames \ keys :
                       old.channel_metadata[name] # NoMeta =>
                           new.channel_metadata[name].obj = old.channel_metadata[name].obj
                /\ new.time_column = IF old.time_column \in keys THEN to(old.time_column)
                                     ELSE old.time_column
                /\ new.time_column \in Range(new.headers)

(***************************************************************************)
(* Claims about the main window's Tests and the FilterManager (SpecWindow).*)
(***************************************************************************)
\* C27: after any sequence of new-test, import-files, delete-test and load-layout the ids
\* registered in the FilterManager are the ids of the window's current Tests: every
\* created, imported or loaded Test is registered and get_test returns no Test that was
\* deleted or discarded.
C27_RegistryIsCurrentTests ==
    fm.done =>
        /\ fm.registry = Range(fm.tests)
        /\ \A test_id \in fm.discarded : ~GetTest(fm.registry, test_id)

(***************************************************************************)
(* Claims about the PlotContainer (SpecPlots).                             *)
(***************************************************************************)
\* C28: after construction and after any sequence of add_plot, remove_plot and
\* set_plot_count(n), n any integer, 1 <= plot_count <= 3; set_plot_count(n) leaves
\* plot_count = max(1, min(3, n)); add_plot at 3 and remove_plot at 1 change nothing; and
\* the settings list is as long as the plot list.
C28_PlotCountClamped ==
    plot_container.done =>
        LET now == [plots |-> plot_container.plots, settings |-> plot_container.settings]
            n == plot_container.arg
        IN  /\ 1 <= PlotCount(plot_container) /\ PlotCount(plot_container) <= 3
            /\ Len(plot_container.settings) = Len(plot_container.plots)
            /\ plot_container.op = "set_plot_count" =>
                   PlotCount(plot_container)
                       = (IF (IF n < 3 THEN n ELSE 3) > 1 THEN (IF n < 3 THEN n ELSE 3) ELSE 1)
            /\ (plot_container.op \in {"add_plot", "on_add_plot"}
                   /\ Len(plot_container.before.plots) = 3) => now = plot_container.before
            /\ (plot_container.op \in {"remove_plot", "on_remove_plot"}
                   /\ Len(plot_container.before.plots) = 1) => now = plot_container.before

\* add_plot was called on a container of three panels.
C28_Witness ==
    /\ plot_container.done /\ plot_container.op = "add_plot"
    /\ Len(plot_container.before.plots) = 3 /\ PlotCount(plot_container) = 3

\* C29, the calls: a mutator called with an id that is not registered changes no Test's
\* filter_state, emits no signal and invokes no listener.
UnregisteredCallIsQuiet ==
    (fm'.calls # fm.calls /\ ~fm.registered[fm'.last.test_id]) =>
        /\ fm'.filter_state = fm.filter_state
        /\ fm'.last.notified = <<>> /\ fm'.last.signals = <<>>

\* C29, the queries: for an id that is not registered get_filter_state and get_test return
\* None and get_filtered_channels returns its input list.
UnregisteredQueriesAreEmpty ==
    \A test_id \in TestIds :
        ~fm.registered[test_id] =>
            /\ ~GetFilterState(fm, test_id).set
            /\ \A all_channels \in UNION {[1..n -> ChannelNames] : n \in 0..MaxChannels} :
                   \A meta \in {m \in ChannelMetas : m.display_name = "x"} :
                       GetFilteredChannels(fm.registered[test_id], fm.filter_state[test_id],
                                           [ch \in ChannelNames |-> meta], all_channels)
                           = all_channels

\* C29: every FilterManager mutator called with a test id that is not registered (never
\* registered, or unregistered since) changes no Test's filter_state and invokes no
\* listener; get_filter_state and get_test return None for that id and
\* get_filtered_channels returns its input list unfiltered.
C29_UnregisteredIdIsIgnored ==
    [](fm.done => UnregisteredQueriesAreEmpty) /\ [][UnregisteredCallIsQuiet]_vars

\* A mutator was called for a Test that is not registered while a listener was listening
\* and the other Test, registered, had a filter set.
C29_Witness ==
    /\ fm.done /\ fm.last.op \in Mutators /\ ~fm.registered[fm.last.test_id]
    /\ fm.listeners # <<>> /\ fm.last.notified = <<>>
    /\ \E t \in TestIds : fm.registered[t] /\ fm.filter_state[t] # DefaultFilterState

(***************************************************************************)
(* Claims about Test.get_time_range (SpecRange).                           *)
(***************************************************************************)
\* The range the claim gives a file: (0, 0) without loaded data, without the time column
\* or without rows, else the smallest and the largest value of the transformed series.
FileRange(df) ==
    IF ~df.loaded \/ df.time_column \notin Range(df.columns) \/ df.raw = <<>> THEN <<0, 0>>
    ELSE LET series == GetTimeData(df).data
         IN  <<CHOOSE v \in Range(series) : \A w \in Range(series) : v <= w,
               CHOOSE v \in Range(series) : \A w \in Range(series) : v >= w>>

\* C30: Test.get_time_range returns the smallest of the member files' range minima and
\* the largest of their range maxima, a file's range being (0, 0) without loaded data,
\* time column or rows; so a member without loaded data makes the range include 0, and a
\* Test without files has range (0, 0).
C30_TestTimeRange ==
    (ret.done /\ ret.op = "get_time_range") =>
        LET minima == {FileRange(call.data_files[i])[1] : i \in DOMAIN call.data_files}
            maxima == {FileRange(call.data_files[i])[2] : i \in DOMAIN call.data_files}
        IN  IF call.data_files = <<>> THEN ret.value = <<0, 0>>
            ELSE /\ ret.value[1] \in minima /\ \A m \in minima : ret.value[1] <= m
                 /\ ret.value[2] \in maxima /\ \A m \in maxima : ret.value[2] >= m
                 /\ (\E i \in DOMAIN call.data_files : ~call.data_files[i].loaded) =>
                        ret.value[1] <= 0 /\ 0 <= ret.value[2]

\* A Test of a file whose series lies above 0 and of a file without loaded data: the
\* range starts at 0.
C30_Witness ==
    /\ ret.done /\ ret.op = "get_time_range" /\ Len(call.data_files) = 2
    /\ call.data_files[1].loaded /\ FileRange(call.data_files[1])[1] > 0
    /\ ~call.data_files[2].loaded
    /\ ret.value[1] = 0 /\ ret.value[2] > 0

====
